---- MODULE Spec2Model ----
(***************************************************************************)
(* A model of the parallel copy performance tester                         *)
(* (src/parallel_copy_linux.c, src/parallel_copy_windows.c).               *)
(*                                                                         *)
(* The two source files are two builds of the same program.  The variable  *)
(* platform says which build runs; where the builds differ there is one    *)
(* definition per build (prefix linux_ / win_).                            *)
(*                                                                         *)
(* Byte counts are the program's own numbers (BLOCK_SIZE = 512,            *)
(* MAX_READ_SIZE = 1 GiB, MMAP_CHUNK_SIZE = 512 MiB); size_t is 64 bits    *)
(* wide in both builds and no count of the model comes near 2^64, so       *)
(* counts are plain integers and an underflow of "remaining" would show    *)
(* as a negative number.                                                   *)
(***************************************************************************)
EXTENDS Integers, Sequences, FiniteSets

\* ---------------------------------------------------------------- constants

BLOCK_SIZE == 512

MAX_READ_SIZE == 1024 * 1024 * 1024

MMAP_CHUNK_SIZE == 512 * 1024 * 1024

\* The two builds.
Platforms == {"linux", "windows"}

\* ------------------------------------------------------------------ bounds

\* File sizes handed to a strategy: up to MaxBlocks whole blocks plus a tail
\* shorter than a block, alone or on top of one full transfer ceiling.
MaxBlocks == 2

Tails == {0, 1, BLOCK_SIZE - 1}

SmallSizes == {b * BLOCK_SIZE + t : b \in 0..MaxBlocks, t \in Tails}

DioFileSizes == SmallSizes \cup {MAX_READ_SIZE + s : s \in SmallSizes}

\* How many reads of one call may return fewer bytes than were asked and
\* still have the loop go on.
MaxShortReads == 2

\* ----------------------------------------------------------------- helpers

Min(a, b) == IF a < b THEN a ELSE b

Max(a, b) == IF a > b THEN a ELSE b

\* What an OS transfer call asked for n bytes may report as transferred when
\* it transfers something: all of it, all but one block, one block, one byte.
Partial(n) == {m \in {n, n - BLOCK_SIZE, BLOCK_SIZE, 1} : 0 < m /\ m <= n}

\* Win32 error codes a failing call leaves in the thread's last-error slot.
WinErrorCodes == {5, 32}

\* CreateFileW(..., CREATE_ALWAYS, ...) that succeeds sets the last-error code
\* to 0 (the file was created) or to ERROR_ALREADY_EXISTS (it was
\* overwritten).
CreateAlwaysLastError == {0, 183}

ERROR_NOT_ENOUGH_MEMORY == 8

VARIABLES
    platform,   \* which build runs
    dio,        \* the frame of one call of copy_using_direct_io
    mm,         \* the frame of one call of copy_using_mmap
    disp,       \* the dispatcher: the handler main() called, on the main thread
    tasks,      \* tasks[ph][k]: the Task record of file k in pass ph
    thr,        \* thr[ph][k]: the thread created for tasks[ph][k]
    results,    \* results[k]: the BenchmarkResult of file k
    rng,        \* rng[r]: a RandomGenerator, its buffer and the fill in run r
    gtf,        \* gtf[c]: the frame of call c of generate_test_file
    mi          \* the frame of one call of copy_using_direct_io_memory_impact

vars == <<platform, dio, mm, disp, tasks, thr, results, rng, gtf, mi>>

\* The dispatcher and its threads.
dispVars == <<disp, tasks, thr, results>>

\* What a step of copy_using_direct_io leaves alone.
dioOthers == <<platform, mm, dispVars, rng, gtf, mi>>

\* What a step of copy_using_mmap leaves alone.
mmOthers == <<platform, dio, dispVars, rng, gtf, mi>>

\* What a step of a dispatcher or of a worker leaves alone.
dispOthers == <<platform, dio, mm, rng, gtf, mi>>

\* ------------------------------------------------------ double arithmetic

\* A double is modelled as the exact quotient num/den of two naturals in
\* lowest terms; den = 0 stands for the results of a division by zero:
\* 1/0 is +infinity and 0/0 is NaN.  set = FALSE marks a field of malloc'ed
\* or stack memory that no one has assigned.
RECURSIVE Gcd(_, _)
Gcd(a, b) == IF b = 0 THEN a ELSE Gcd(b, a % b)

QNorm(n, d) ==
    IF d = 0 THEN [num |-> IF n = 0 THEN 0 ELSE 1, den |-> 0, set |-> TRUE]
    ELSE IF n = 0 THEN [num |-> 0, den |-> 1, set |-> TRUE]
    ELSE [num |-> n \div Gcd(n, d), den |-> d \div Gcd(n, d), set |-> TRUE]

QInt(n) == QNorm(n, 1)

QUnset == [num |-> 0, den |-> 1, set |-> FALSE]

QIsNaN(a) == a.num = 0 /\ a.den = 0

QIsInf(a) == a.num # 0 /\ a.den = 0

QIsZero(a) == a.num = 0 /\ a.den # 0

QIsFinite(a) == a.den # 0

\* a / b in IEEE arithmetic: x/0 is +infinity for x > 0, 0/0 is NaN.
QDiv(a, b) == QNorm(a.num * b.den, a.den * b.num)

\* a + b.
QAdd(a, b) ==
    IF QIsNaN(a) \/ QIsNaN(b) THEN QNorm(0, 0)
    ELSE IF QIsInf(a) \/ QIsInf(b) THEN QNorm(1, 0)
    ELSE QNorm(a.num * b.den + b.num * a.den, a.den * b.den)

\* a > b (false when either is NaN).
QGt(a, b) ==
    /\ ~QIsNaN(a) /\ ~QIsNaN(b)
    /\ IF QIsInf(a) THEN ~QIsInf(b)
       ELSE IF QIsInf(b) THEN FALSE
       ELSE a.num * b.den > b.num * a.den

\* a >= b (false when either is NaN).
QGe(a, b) ==
    /\ ~QIsNaN(a) /\ ~QIsNaN(b)
    /\ IF QIsInf(a) THEN TRUE
       ELSE IF QIsInf(b) THEN FALSE
       ELSE a.num * b.den >= b.num * a.den

\* fmax(a, b): the larger; the other one when one is NaN.
QFmax(a, b) ==
    IF QIsNaN(a) THEN b ELSE IF QIsNaN(b) THEN a
    ELSE IF QGt(b, a) THEN b ELSE a

\* ------------------------------------------------------- tasks and threads

\* Files per run (num_files), sizes of the files in MiB, and the clock
\* ticks a task may be measured to take.
MaxFiles == 2

MaxMiB == 1

MaxDuration == 1

MiB == 1024 * 1024

Files == 1..MaxFiles

\* st.st_size as stat finds it (the file may be empty) - and as it may be
\* found in the never-assigned struct stat when stat failed.
TaskSizes == {m * MiB : m \in 0..MaxMiB}

\* The passes: the one of handle_copy_files, and the three of
\* handle_benchmark.
Phases == {"copy", "gen", "mem", "disk"}

CopyModes == {"SYSTEM_CP", "MMAP", "DIRECT_IO", "DIRECT_IO_MEMORY_IMPACT"}

\* CopyTask (GenerateTask in the linux build's generation pass): the
\* measurement fields are not assigned by whoever allocates the record.
\*   dst_path  "none", "live" (malloc'ed) or "freed"
TaskRecord ==
    [mode |-> "none", size_mib |-> QUnset, duration |-> QUnset,
     speed |-> QUnset, dst_path |-> "none"]

\* A thread and the locals of its thread function.
\*   handle  threads[i]: "unset" (never assigned), "valid", "null", "closed"
\*   pc      "none" (no such thread), "start", "strategy", "generate",
\*           "finish", "done" (terminated)
\*   inline  the thread function is called on the main thread
\*   exit    the value the thread function returned
ThreadRecord ==
    [handle |-> "unset", pc |-> "none", inline |-> FALSE,
     stat_ok |-> TRUE, st_size |-> 0, result |-> -1,
     strategy_calls |-> 0, exit |-> 0]

\* BenchmarkResult.
ResultRecord ==
    [size_mib |-> QUnset, memory_duration |-> QUnset,
     memory_speed |-> QUnset, disk_duration |-> QUnset,
     disk_speed |-> QUnset]

\* The dispatcher's frame.
\*   handler    "copy" (handle_copy_files), "benchmark" (handle_benchmark)
\*              or "generate" (handle_generate_test_files)
\*   file_size  --size in bytes (handle_generate_test_files)
\*   freed      the passes whose tasks array has been freed
DispFrame(h, n, m) ==
    [handler |-> h, num_files |-> n, mode |-> m, file_size |-> 0,
     pc |-> "create", i |-> 0,
     phase |-> IF h = "copy" THEN "copy" ELSE "gen",
     freed |-> {}, all_success |-> TRUE,
     total_size |-> QUnset, total_duration |-> QUnset,
     avg_speed |-> QUnset,
     total_memory_duration |-> QUnset, total_disk_duration |-> QUnset,
     avg_memory_speed |-> QUnset, avg_disk_speed |-> QUnset,
     speed_ratio |-> QUnset, wall |-> FALSE,
     ret |-> 0]

DispIdle ==
    /\ disp = [DispFrame("none", 0, "none") EXCEPT !.pc = "idle"]
    /\ tasks = [ph \in Phases |-> [k \in Files |-> TaskRecord]]
    /\ thr = [ph \in Phases |-> [k \in Files |-> ThreadRecord]]
    /\ results = [k \in Files |-> ResultRecord]

\* ------------------------------------------------- frames of the strategies

\* No run of the generator is in progress.
RngIdle == <<>>

\* No call of generate_test_file is in progress.
GtfIdle == <<>>

\* No call of copy_using_direct_io_memory_impact is in progress.
MiIdle == <<>>

\* Sizes handed to copy_using_mmap: up to MaxChunks whole chunk ceilings plus
\* a tail.
MaxChunks == 2

MmapTails == {0, 1, BLOCK_SIZE}

MmapFileSizes == {c * MMAP_CHUNK_SIZE + t : c \in 0..MaxChunks, t \in MmapTails}

\* The frame before the call.
\*   dst_len   length of the destination file (it may exist already)
\*   windows   the memcpy calls made so far, in order: each copied len bytes
\*             from source offset src_off to destination offset dst_off
\*   src_map, dst_map   the mapping objects and views of the current pass
\*   leaked    descriptors, handles and views left open by a return
MmapFrame(size, len) ==
    [pc |-> "open", file_size |-> size, remaining |-> size, offset |-> 0,
     chunk_size |-> 0, dst_len |-> len, windows |-> <<>>,
     src_fd |-> "none", dst_fd |-> "none",
     mapped |-> 0, leaked |-> 0, failed_map |-> FALSE,
     lastError |-> 0, ret |-> 0]

MmapIdle == [MmapFrame(0, 0) EXCEPT !.pc = "idle"]

\* --------------------------------------------------- copy_using_direct_io

\* The frame before the call: nothing opened, nothing transferred.
\*   written    sum of the byte counts the destination accepted
\*   full       every read so far returned the requested length and every
\*              write so far was complete
\*   shorts     how many reads returned fewer bytes than were asked
\*   lastError  the thread's Win32 last-error code (windows build)
DioFrame(size) ==
    [pc |-> "open", file_size |-> size, remaining |-> size,
     to_read |-> 0, bytes_read |-> 0, bytes_written |-> 0,
     written |-> 0, iterations |-> 0, shorts |-> 0, full |-> TRUE,
     src_fd |-> "none", dst_fd |-> "none", buffer |-> "none",
     lastError |-> 0, ret |-> 0]

DioIdle == [DioFrame(0) EXCEPT !.pc = "idle"]

\* to_read = (remaining < MAX_READ_SIZE) ? remaining : MAX_READ_SIZE;
\* to_read = (to_read / BLOCK_SIZE) * BLOCK_SIZE;
DioToReadUnaligned(remaining) == Min(remaining, MAX_READ_SIZE)

\* A slip: the request is rounded up to a whole block instead of down.
DioToRead_RoundedUp(remaining) ==
    ((Min(remaining, MAX_READ_SIZE) + BLOCK_SIZE - 1) \div BLOCK_SIZE)
        * BLOCK_SIZE

DioToRead(remaining) ==
    (Min(remaining, MAX_READ_SIZE) \div BLOCK_SIZE) * BLOCK_SIZE

\* read(2): -1, 0 (end of file, or a request of 0 bytes), or a count up to
\* what was asked.
linux_ReadResults(to_read) == {-1, 0} \cup Partial(to_read)

\* write(2): -1 or a count up to what was asked.
linux_WriteResults(n) == {-1, 0} \cup Partial(n)

\* src_fd = open(src, O_RDONLY | O_DIRECT); dst_fd = open(dst, ...);
\* if (src_fd < 0 || dst_fd < 0) return -1;
linux_copy_using_direct_io_open ==
    /\ platform = "linux"
    /\ dio.pc = "open"
    /\ \E s \in {"open", "failed"}, d \in {"open", "failed"} :
         dio' = IF s = "failed" \/ d = "failed"
                THEN [dio EXCEPT !.src_fd = s, !.dst_fd = d,
                                 !.pc = "done", !.ret = -1]
                ELSE [dio EXCEPT !.src_fd = s, !.dst_fd = d, !.pc = "alloc"]
    /\ UNCHANGED dioOthers

\* if (posix_memalign(&buffer, BLOCK_SIZE, MAX_READ_SIZE) != 0)
\*     { close(src_fd); close(dst_fd); return -1; }
linux_copy_using_direct_io_alloc ==
    /\ platform = "linux"
    /\ dio.pc = "alloc"
    /\ \E ok \in BOOLEAN :
         dio' = IF ok
                THEN [dio EXCEPT !.buffer = "allocated", !.pc = "loop"]
                ELSE [dio EXCEPT !.src_fd = "closed", !.dst_fd = "closed",
                                 !.pc = "done", !.ret = -1]
    /\ UNCHANGED dioOthers

\* One pass through the body of while (remaining > 0).
linux_copy_using_direct_io_iterate ==
    /\ platform = "linux"
    /\ dio.pc = "loop"
    /\ dio.remaining > 0
    /\ LET to_read == DioToRead(dio.remaining) IN
       \E bytes_read \in linux_ReadResults(to_read) :
         IF bytes_read <= 0
         THEN dio' = [dio EXCEPT !.to_read = to_read,
                                 !.bytes_read = bytes_read,
                                 !.iterations = @ + 1,
                                 !.full = @ /\ bytes_read = to_read,
                                 !.pc = "break"]
         ELSE \E bytes_written \in linux_WriteResults(bytes_read) :
                /\ bytes_read < to_read => dio.shorts < MaxShortReads
                /\ dio' = [dio EXCEPT
                          !.to_read = to_read,
                          !.bytes_read = bytes_read,
                          !.bytes_written = bytes_written,
                          !.iterations = @ + 1,
                          !.shorts = IF bytes_read < to_read
                                     THEN @ + 1 ELSE @,
                          !.written = @ + Max(bytes_written, 0),
                          !.full = @ /\ bytes_read = to_read
                                     /\ bytes_written = bytes_read,
                          !.remaining = IF bytes_written # bytes_read
                                        THEN @ ELSE @ - bytes_read,
                          !.pc = IF bytes_written # bytes_read
                                 THEN "break" ELSE "loop"]
    /\ UNCHANGED dioOthers

\* A slip: a tail shorter than a block counts as copied.
linux_DioReturnValue_TailIgnored(remaining) ==
    IF remaining < BLOCK_SIZE THEN 0 ELSE -1

\* free(buffer); close(src_fd); close(dst_fd);
\* return (remaining == 0) ? 0 : -1;
linux_DioReturnValue(remaining) == IF remaining = 0 THEN 0 ELSE -1

linux_copy_using_direct_io_return ==
    /\ platform = "linux"
    /\ \/ dio.pc = "break"
       \/ dio.pc = "loop" /\ dio.remaining = 0
    /\ dio' = [dio EXCEPT !.buffer = "freed", !.src_fd = "closed",
                          !.dst_fd = "closed", !.pc = "done",
                          !.ret = linux_DioReturnValue(dio.remaining)]
    /\ UNCHANGED dioOthers

\* ------------------------------------------------------ windows build

\* ReadFile: FALSE (the call failed and set the last-error code), or TRUE
\* with a count from 0 (end of file, or a request of 0 bytes) up to what
\* was asked.  A call that succeeds leaves the last-error code alone.
win_ReadResults(to_read) ==
    {[ok |-> FALSE, n |-> 0]}
      \cup {[ok |-> TRUE, n |-> m] : m \in {0} \cup Partial(to_read)}

\* WriteFile: FALSE, or TRUE with the count written.
win_WriteResults(n) ==
    {[ok |-> FALSE, n |-> 0]}
      \cup {[ok |-> TRUE, n |-> m] : m \in {0} \cup Partial(n)}

\* src_handle = CreateFileW(src, ..., OPEN_EXISTING, ...);
\* dst_handle = CreateFileW(dst, ..., CREATE_ALWAYS, ...);
\* if (either is INVALID_HANDLE_VALUE) { close the valid one;
\*                                       return GetLastError(); }
\* The last-error code at the return is the one the second CreateFileW left:
\* an error code when it failed, 0 or ERROR_ALREADY_EXISTS when it worked.
win_copy_using_direct_io_open ==
    /\ platform = "windows"
    /\ dio.pc = "open"
    /\ \E s \in {"open", "failed"}, d \in {"open", "failed"} :
       \E e \in IF d = "failed" THEN WinErrorCodes ELSE CreateAlwaysLastError :
         dio' = IF s = "failed" \/ d = "failed"
                THEN [dio EXCEPT
                        !.src_fd = IF s = "open" THEN "closed" ELSE s,
                        !.dst_fd = IF d = "open" THEN "closed" ELSE d,
                        !.lastError = e, !.pc = "done", !.ret = e]
                ELSE [dio EXCEPT !.src_fd = s, !.dst_fd = d,
                                 !.lastError = e, !.pc = "alloc"]
    /\ UNCHANGED dioOthers

\* buffer = _aligned_malloc(MAX_READ_SIZE, BLOCK_SIZE);
\* if (!buffer) { CloseHandle x 2; return ERROR_NOT_ENOUGH_MEMORY; }
win_copy_using_direct_io_alloc ==
    /\ platform = "windows"
    /\ dio.pc = "alloc"
    /\ \E ok \in BOOLEAN :
         dio' = IF ok
                THEN [dio EXCEPT !.buffer = "allocated", !.pc = "loop"]
                ELSE [dio EXCEPT !.src_fd = "closed", !.dst_fd = "closed",
                                 !.pc = "done",
                                 !.ret = ERROR_NOT_ENOUGH_MEMORY]
    /\ UNCHANGED dioOthers

\* One pass through the body of while (remaining > 0).  to_read never
\* exceeds MAX_READ_SIZE < MAXDWORD, so bytes_to_read = to_read.
win_copy_using_direct_io_iterate ==
    /\ platform = "windows"
    /\ dio.pc = "loop"
    /\ dio.remaining > 0
    /\ LET to_read == DioToRead(dio.remaining) IN
       \E r \in win_ReadResults(to_read) :
         IF ~r.ok \/ r.n = 0
         THEN \E e \in WinErrorCodes :
                dio' = [dio EXCEPT !.to_read = to_read,
                                   !.bytes_read = r.n,
                                   !.iterations = @ + 1,
                                   !.full = @ /\ r.ok /\ r.n = to_read,
                                   !.lastError = IF r.ok THEN @ ELSE e,
                                   !.pc = "break"]
         ELSE \E w \in win_WriteResults(r.n) : \E e \in WinErrorCodes :
                /\ r.n < to_read => dio.shorts < MaxShortReads
                /\ dio' = [dio EXCEPT
                          !.to_read = to_read,
                          !.bytes_read = r.n,
                          !.bytes_written = w.n,
                          !.iterations = @ + 1,
                          !.shorts = IF r.n < to_read THEN @ + 1 ELSE @,
                          !.written = @ + w.n,
                          !.full = @ /\ r.n = to_read /\ w.ok /\ w.n = r.n,
                          !.lastError = IF w.ok THEN @ ELSE e,
                          !.remaining = IF ~w.ok \/ w.n # r.n
                                        THEN @ ELSE @ - r.n,
                          !.pc = IF ~w.ok \/ w.n # r.n
                                 THEN "break" ELSE "loop"]
    /\ UNCHANGED dioOthers

\* _aligned_free(buffer); CloseHandle x 2;
\* return (remaining == 0) ? 0 : GetLastError();
win_DioReturnValue(remaining, lastError) ==
    IF remaining = 0 THEN 0 ELSE lastError

win_copy_using_direct_io_return ==
    /\ platform = "windows"
    /\ \/ dio.pc = "break"
       \/ dio.pc = "loop" /\ dio.remaining = 0
    /\ dio' = [dio EXCEPT
                 !.buffer = "freed", !.src_fd = "closed",
                 !.dst_fd = "closed", !.pc = "done",
                 !.ret = win_DioReturnValue(dio.remaining, dio.lastError)]
    /\ UNCHANGED dioOthers

\* A call of copy_using_direct_io on either build, for any file size.
DioInit ==
    /\ platform \in Platforms
    /\ mi = MiIdle
    /\ rng = RngIdle
    /\ gtf = GtfIdle
    /\ dio \in {DioFrame(s) : s \in DioFileSizes}
    /\ mm = MmapIdle
    /\ DispIdle

DioNext ==
    \/ linux_copy_using_direct_io_open
    \/ linux_copy_using_direct_io_alloc
    \/ linux_copy_using_direct_io_iterate
    \/ linux_copy_using_direct_io_return
    \/ win_copy_using_direct_io_open
    \/ win_copy_using_direct_io_alloc
    \/ win_copy_using_direct_io_iterate
    \/ win_copy_using_direct_io_return

SpecDio == DioInit /\ [][DioNext]_vars

\* The same, with the call never left half-way: the thread that runs it is
\* scheduled again until the call returns.
SpecDioFair == SpecDio /\ WF_vars(DioNext)


\* -------------------------------------------------------- copy_using_mmap

\* A slip: every chunk is a whole ceiling, the last one too.
MmapChunkSize_Whole(remaining) == MMAP_CHUNK_SIZE

\* chunk_size = (remaining < MMAP_CHUNK_SIZE) ? remaining : MMAP_CHUNK_SIZE;
MmapChunkSize(remaining) == Min(remaining, MMAP_CHUNK_SIZE)

\* memcpy(dst_map, src_map, chunk_size) on views that both start at the
\* file offset "offset".
MmapCopy(offset, chunk_size) ==
    [src_off |-> offset, dst_off |-> offset, len |-> chunk_size]

\* src_fd = open(src, O_RDONLY); dst_fd = open(dst, O_RDWR | O_CREAT, 0644);
\* if (src_fd < 0 || dst_fd < 0) return -1;     (nothing is closed)
linux_copy_using_mmap_open ==
    /\ platform = "linux"
    /\ mm.pc = "open"
    /\ \E s \in {"open", "failed"}, d \in {"open", "failed"} :
         mm' = IF s = "failed" \/ d = "failed"
               THEN [mm EXCEPT !.src_fd = s, !.dst_fd = d,
                               !.leaked = (IF s = "open" THEN 1 ELSE 0)
                                          + (IF d = "open" THEN 1 ELSE 0),
                               !.pc = "done", !.ret = -1]
               ELSE [mm EXCEPT !.src_fd = s, !.dst_fd = d, !.pc = "truncate"]
    /\ UNCHANGED mmOthers

\* if (ftruncate(dst_fd, file_size) != 0) { close x 2; return -1; }
linux_copy_using_mmap_truncate ==
    /\ platform = "linux"
    /\ mm.pc = "truncate"
    /\ \E ok \in BOOLEAN :
         mm' = IF ok
               THEN [mm EXCEPT !.dst_len = mm.file_size, !.pc = "loop"]
               ELSE [mm EXCEPT !.src_fd = "closed", !.dst_fd = "closed",
                               !.pc = "done", !.ret = -1]
    /\ UNCHANGED mmOthers

\* One pass through the body of while (remaining > 0): map both windows; if
\* either mmap failed close the descriptors and return -1 (the window that
\* was mapped stays mapped); else memcpy, msync, munmap x 2, advance.
linux_copy_using_mmap_iterate ==
    /\ platform = "linux"
    /\ mm.pc = "loop"
    /\ mm.remaining > 0
    /\ LET chunk_size == MmapChunkSize(mm.remaining) IN
       \E src_ok \in BOOLEAN, dst_ok \in BOOLEAN :
         mm' = IF ~src_ok \/ ~dst_ok
               THEN [mm EXCEPT !.chunk_size = chunk_size,
                               !.failed_map = TRUE,
                               !.leaked = (IF src_ok THEN 1 ELSE 0)
                                          + (IF dst_ok THEN 1 ELSE 0),
                               !.src_fd = "closed", !.dst_fd = "closed",
                               !.pc = "done", !.ret = -1]
               ELSE [mm EXCEPT !.chunk_size = chunk_size,
                               !.mapped = @ + 1,
                               !.windows =
                                   Append(@, MmapCopy(mm.offset, chunk_size)),
                               !.remaining = @ - chunk_size,
                               !.offset = @ + chunk_size]
    /\ UNCHANGED mmOthers

\* close(src_fd); close(dst_fd); return 0;
linux_copy_using_mmap_return ==
    /\ platform = "linux"
    /\ mm.pc = "loop"
    /\ mm.remaining = 0
    /\ mm' = [mm EXCEPT !.src_fd = "closed", !.dst_fd = "closed",
                        !.pc = "done", !.ret = 0]
    /\ UNCHANGED mmOthers

\* ------------------------------------------------------ windows build

\* src_handle = CreateFileW(src, ..., OPEN_EXISTING, ...);
\* if (src_handle == INVALID_HANDLE_VALUE) return GetLastError();
\* dst_handle = CreateFileW(dst, ..., CREATE_ALWAYS, ...);   (length 0 now)
\* if (dst_handle == INVALID_HANDLE_VALUE)
\*     { CloseHandle(src_handle); return GetLastError(); }
win_copy_using_mmap_open ==
    /\ platform = "windows"
    /\ mm.pc = "open"
    /\ \/ \E e \in WinErrorCodes :
            mm' = [mm EXCEPT !.src_fd = "failed", !.lastError = e,
                             !.pc = "done", !.ret = e]
       \/ \E e \in WinErrorCodes :
            mm' = [mm EXCEPT !.src_fd = "closed", !.dst_fd = "failed",
                             !.lastError = e, !.pc = "done", !.ret = e]
       \/ \E e \in CreateAlwaysLastError :
            mm' = [mm EXCEPT !.src_fd = "open", !.dst_fd = "open",
                             !.dst_len = 0, !.lastError = e,
                             !.pc = "truncate"]
    /\ UNCHANGED mmOthers

\* if (!SetFilePointerEx(dst_handle, li, NULL, FILE_BEGIN) ||
\*     !SetEndOfFile(dst_handle)) { CloseHandle x 2; return GetLastError(); }
win_copy_using_mmap_truncate ==
    /\ platform = "windows"
    /\ mm.pc = "truncate"
    /\ \/ \E e \in WinErrorCodes :
            mm' = [mm EXCEPT !.src_fd = "closed", !.dst_fd = "closed",
                             !.lastError = e, !.pc = "done", !.ret = e]
       \/ mm' = [mm EXCEPT !.dst_len = mm.file_size, !.pc = "loop"]
    /\ UNCHANGED mmOthers

\* The last-error code after the two CreateFileMappingW calls when at least
\* one failed.  A failing call sets an error code; a call that succeeds
\* clears the code or leaves it alone (the mapping is unnamed, so it never
\* sets ERROR_ALREADY_EXISTS).
win_LastErrorAfterMappings(src_ok, dst_ok, e, before) ==
    IF ~dst_ok THEN {e}
    ELSE IF ~src_ok THEN {e, 0}
    ELSE {before, 0}

\* The last-error code after the two MapViewOfFile calls: a failing call sets
\* an error code, a call that succeeds leaves the code alone.
win_LastErrorAfterViews(src_ok, dst_ok, e, before) ==
    IF ~src_ok \/ ~dst_ok THEN e ELSE before

\* One pass through the body of while (remaining > 0 && result == 0).
\*   - create both mapping objects; if either is NULL:
\*         result = GetLastError(); break;   (the other handle stays open)
\*   - map both views; if either is NULL: result = GetLastError();
\*     else memcpy and FlushViewOfFile;
\*   - unmap the views and close the mapping objects that exist;
\*   - remaining -= chunk_size; offset += chunk_size.
win_copy_using_mmap_iterate ==
    /\ platform = "windows"
    /\ mm.pc = "loop"
    /\ mm.remaining > 0
    /\ mm.ret = 0
    /\ LET chunk_size == MmapChunkSize(mm.remaining) IN
       \E src_map \in BOOLEAN, dst_map \in BOOLEAN,
          src_view \in BOOLEAN, dst_view \in BOOLEAN, e \in WinErrorCodes :
         IF ~src_map \/ ~dst_map
         THEN \E le \in win_LastErrorAfterMappings(src_map, dst_map, e,
                                                   mm.lastError) :
                mm' = [mm EXCEPT !.chunk_size = chunk_size,
                                 !.failed_map = TRUE,
                                 !.leaked = (IF src_map THEN 1 ELSE 0)
                                            + (IF dst_map THEN 1 ELSE 0),
                                 !.lastError = le, !.ret = le,
                                 !.pc = "break"]
         ELSE \E lm \in win_LastErrorAfterMappings(TRUE, TRUE, e,
                                                   mm.lastError) :
              LET lv == win_LastErrorAfterViews(src_view, dst_view, e, lm)
                  ok == src_view /\ dst_view
              IN  mm' = [mm EXCEPT
                           !.chunk_size = chunk_size,
                           !.failed_map = @ \/ ~ok,
                           !.mapped = IF ok THEN @ + 1 ELSE @,
                           !.windows =
                               IF ok
                               THEN Append(@, MmapCopy(mm.offset, chunk_size))
                               ELSE @,
                           !.lastError = lv,
                           !.ret = IF ok THEN @ ELSE lv,
                           !.remaining = @ - chunk_size,
                           !.offset = @ + chunk_size]
    /\ UNCHANGED mmOthers

\* CloseHandle(src_handle); CloseHandle(dst_handle); return result;
win_copy_using_mmap_return ==
    /\ platform = "windows"
    /\ \/ mm.pc = "break"
       \/ mm.pc = "loop" /\ (mm.remaining = 0 \/ mm.ret # 0)
    /\ mm' = [mm EXCEPT !.src_fd = "closed", !.dst_fd = "closed",
                        !.pc = "done"]
    /\ UNCHANGED mmOthers

\* A call of copy_using_mmap on either build, for any file size, onto a
\* destination that does not exist yet or exists with some length.
MmapInit ==
    /\ platform \in Platforms
    /\ mi = MiIdle
    /\ rng = RngIdle
    /\ gtf = GtfIdle
    /\ mm \in {MmapFrame(s, l) : s \in MmapFileSizes, l \in {0, 2 * BLOCK_SIZE}}
    /\ dio = DioIdle
    /\ DispIdle

MmapNext ==
    \/ linux_copy_using_mmap_open
    \/ linux_copy_using_mmap_truncate
    \/ linux_copy_using_mmap_iterate
    \/ linux_copy_using_mmap_return
    \/ win_copy_using_mmap_open
    \/ win_copy_using_mmap_truncate
    \/ win_copy_using_mmap_iterate
    \/ win_copy_using_mmap_return

SpecMmap == MmapInit /\ [][MmapNext]_vars

\* ------------------------------------------------------- copy_file_thread

\* What a strategy returns: 0 for success; -1 (linux build) or a Win32
\* error code (windows build) for failure.
linux_StrategyResults == {0, -1}

win_StrategyResults == {0} \cup WinErrorCodes

\* task->speed = task->size_mib / task->duration;
TaskSpeed(size_mib, duration) == QDiv(size_mib, duration)

\* The value copy_file_thread returns at its end: NULL in the linux build,
\* the strategy's result in the windows build.
linux_ThreadExit(result) == 0

win_ThreadExit(result) == result

\* Threads run until the process ends; an inline call runs on the main
\* thread while the dispatcher waits in the call.
Runs(ph, k) ==
    /\ disp.pc # "idle"
    /\ thr[ph][k].inline =>
         (disp.pc = "call" /\ disp.phase = ph /\ disp.i + 1 = k)

\* gettimeofday(&start); stat(task->src_path, &st);       (result ignored)
\* task->size_mib = st.st_size / (1024.0 * 1024.0);
\* When stat fails st is never assigned and st.st_size is whatever the
\* stack held.
linux_copy_file_thread_start(ph, k) ==
    /\ platform = "linux"
    /\ Runs(ph, k)
    /\ thr[ph][k].pc = "start"
    /\ tasks[ph][k].mode \in CopyModes
    /\ \E ok \in BOOLEAN, size \in TaskSizes :
         /\ thr' = [thr EXCEPT ![ph][k].stat_ok = ok,
                               ![ph][k].st_size = size,
                               ![ph][k].pc = "strategy"]
         /\ tasks' = [tasks EXCEPT ![ph][k].size_mib = QNorm(size, MiB)]
    /\ UNCHANGED <<disp, results, dispOthers>>

\* int result = -1; switch (task->mode) { case ...: result = copy_...; }
linux_copy_file_thread_strategy(ph, k) ==
    /\ platform = "linux"
    /\ Runs(ph, k)
    /\ thr[ph][k].pc = "strategy"
    /\ \E r \in linux_StrategyResults :
         thr' = [thr EXCEPT ![ph][k].result = r,
                            ![ph][k].strategy_calls = @ + 1,
                            ![ph][k].pc = "finish"]
    /\ UNCHANGED <<disp, tasks, results, dispOthers>>

\* gettimeofday(&end); task->duration = end - start;
\* task->speed = task->size_mib / task->duration; return NULL;
linux_copy_file_thread_finish(ph, k) ==
    /\ platform = "linux"
    /\ Runs(ph, k)
    /\ thr[ph][k].pc = "finish"
    /\ tasks[ph][k].mode \in CopyModes
    /\ \E d \in 0..MaxDuration :
         tasks' = [tasks EXCEPT
                     ![ph][k].duration = QInt(d),
                     ![ph][k].speed =
                         TaskSpeed(tasks[ph][k].size_mib, QInt(d))]
    /\ thr' = [thr EXCEPT ![ph][k].exit = linux_ThreadExit(thr[ph][k].result),
                          ![ph][k].pc = "done"]
    /\ UNCHANGED <<disp, results, dispOthers>>

\* generate_file_thread: gettimeofday(&start);
\* int result = generate_test_file(task->path, task->size);
linux_generate_file_thread_run(ph, k) ==
    /\ platform = "linux"
    /\ Runs(ph, k)
    /\ thr[ph][k].pc = "start"
    /\ tasks[ph][k].mode = "GENERATE_TEST_FILES"
    /\ \E r \in linux_StrategyResults :
         thr' = [thr EXCEPT ![ph][k].result = r, ![ph][k].pc = "finish"]
    /\ UNCHANGED <<disp, tasks, results, dispOthers>>

\* gettimeofday(&end); task->duration = end - start;
\* return (void*)(long)result;
linux_generate_file_thread_finish(ph, k) ==
    /\ platform = "linux"
    /\ Runs(ph, k)
    /\ thr[ph][k].pc = "finish"
    /\ tasks[ph][k].mode = "GENERATE_TEST_FILES"
    /\ \E d \in 0..MaxDuration :
         tasks' = [tasks EXCEPT ![ph][k].duration = QInt(d)]
    /\ thr' = [thr EXCEPT ![ph][k].exit = thr[ph][k].result,
                          ![ph][k].pc = "done"]
    /\ UNCHANGED <<disp, results, dispOthers>>

\* double start_time = get_time();
\* if (task->mode == GENERATE_TEST_FILES) return generate_test_file(...);
\* if (!GetFileAttributesExW(...)) return GetLastError();
\* task->size_mib = file_size.QuadPart / (1024.0 * 1024.0);
win_copy_file_thread_start(ph, k) ==
    /\ platform = "windows"
    /\ Runs(ph, k)
    /\ thr[ph][k].pc = "start"
    /\ IF tasks[ph][k].mode = "GENERATE_TEST_FILES"
       THEN /\ thr' = [thr EXCEPT ![ph][k].pc = "generate"]
            /\ UNCHANGED tasks
       ELSE \E ok \in BOOLEAN, size \in TaskSizes, e \in WinErrorCodes :
              IF ok
              THEN /\ thr' = [thr EXCEPT ![ph][k].stat_ok = TRUE,
                                         ![ph][k].st_size = size,
                                         ![ph][k].pc = "strategy"]
                   /\ tasks' = [tasks EXCEPT
                                  ![ph][k].size_mib = QNorm(size, MiB)]
              ELSE /\ thr' = [thr EXCEPT ![ph][k].stat_ok = FALSE,
                                         ![ph][k].exit = e,
                                         ![ph][k].pc = "done"]
                   /\ UNCHANGED tasks
    /\ UNCHANGED <<disp, results, dispOthers>>

\* return generate_test_file(task->src_path, task->test_file_size);
win_copy_file_thread_generate(ph, k) ==
    /\ platform = "windows"
    /\ Runs(ph, k)
    /\ thr[ph][k].pc = "generate"
    /\ \E r \in win_StrategyResults \cup {ERROR_NOT_ENOUGH_MEMORY} :
         thr' = [thr EXCEPT ![ph][k].result = r, ![ph][k].exit = r,
                            ![ph][k].pc = "done"]
    /\ UNCHANGED <<disp, tasks, results, dispOthers>>

\* int result = -1; switch (task->mode) { case ...: result = copy_...; }
win_copy_file_thread_strategy(ph, k) ==
    /\ platform = "windows"
    /\ Runs(ph, k)
    /\ thr[ph][k].pc = "strategy"
    /\ \E r \in win_StrategyResults :
         thr' = [thr EXCEPT ![ph][k].result = r,
                            ![ph][k].strategy_calls = @ + 1,
                            ![ph][k].pc = "finish"]
    /\ UNCHANGED <<disp, tasks, results, dispOthers>>

\* task->duration = get_time() - start_time;
\* task->speed = task->size_mib / task->duration; return result;
win_copy_file_thread_finish(ph, k) ==
    /\ platform = "windows"
    /\ Runs(ph, k)
    /\ thr[ph][k].pc = "finish"
    /\ \E d \in 0..MaxDuration :
         tasks' = [tasks EXCEPT
                     ![ph][k].duration = QInt(d),
                     ![ph][k].speed =
                         TaskSpeed(tasks[ph][k].size_mib, QInt(d))]
    /\ thr' = [thr EXCEPT ![ph][k].exit = win_ThreadExit(thr[ph][k].result),
                          ![ph][k].pc = "done"]
    /\ UNCHANGED <<disp, results, dispOthers>>

\* A step of the thread of task k of pass ph.
Worker(ph, k) ==
    \/ linux_copy_file_thread_start(ph, k)
    \/ linux_copy_file_thread_strategy(ph, k)
    \/ linux_copy_file_thread_finish(ph, k)
    \/ win_copy_file_thread_start(ph, k)
    \/ win_copy_file_thread_strategy(ph, k)
    \/ win_copy_file_thread_finish(ph, k)

\* A step of a generation thread.
GenWorker(ph, k) ==
    \/ linux_generate_file_thread_run(ph, k)
    \/ linux_generate_file_thread_finish(ph, k)
    \/ win_copy_file_thread_generate(ph, k)

\* A thread that has been started and has not terminated.
Running(ph, k) == thr[ph][k].pc \notin {"none", "done"}

\* ------------------------------------------------------ print_copy_results

\* What reading a double field yields: its value, or whatever the memory
\* held (g) when the field was never assigned.
ReadField(f, g) == IF f.set THEN f ELSE g

GarbageDoubles == {QInt(0), QInt(1)}

\* total_size += tasks[i].size_mib, for i = 0 .. n-1, from 0.
RECURSIVE TotalSize(_, _)
TotalSize(size_mib, n) ==
    IF n = 0 THEN QInt(0) ELSE QAdd(TotalSize(size_mib, n - 1), size_mib[n])

\* A slip: the durations are added up, as if the tasks ran one after the
\* other.
TotalDuration_Sum(duration, n) == TotalSize(duration, n)

\* total_duration = (tasks[i].duration > total_duration)
\*                      ? tasks[i].duration : total_duration;   from 0.
RECURSIVE TotalDuration(_, _)
TotalDuration(duration, n) ==
    IF n = 0 THEN QInt(0)
    ELSE LET t == TotalDuration(duration, n - 1)
         IN  IF QGt(duration[n], t) THEN duration[n] ELSE t

\* "Average Speed": total_size / total_duration.
AverageSpeed(total_size, total_duration) == QDiv(total_size, total_duration)

\* print_copy_results(tasks, num_files)
print_copy_results ==
    /\ disp.handler = "copy"
    /\ disp.pc = "report"
    /\ \E gs \in [Files -> GarbageDoubles], gd \in [Files -> GarbageDoubles] :
         LET size_mib == [k \in Files |->
                             ReadField(tasks["copy"][k].size_mib, gs[k])]
             duration == [k \in Files |->
                             ReadField(tasks["copy"][k].duration, gd[k])]
             total_size == TotalSize(size_mib, disp.num_files)
             total_duration == TotalDuration(duration, disp.num_files)
         IN  disp' = [disp EXCEPT
                        !.total_size = total_size,
                        !.total_duration = total_duration,
                        !.avg_speed = AverageSpeed(total_size, total_duration),
                        !.pc = "cleanup"]
    /\ UNCHANGED <<tasks, thr, results, dispOthers>>

\* ------------------------------------------------------- handle_copy_files

\* A thread that runs the thread function of its task from the start.
StartedThread ==
    [ThreadRecord EXCEPT !.handle = "valid", !.pc = "start"]

\* The loop "Start all copy threads", one file: fill in tasks[i], then
\* pthread_create(&threads[i], NULL, copy_file_thread, &tasks[i]);
\* The result of pthread_create is not looked at: when it fails no thread
\* runs and threads[i] stays as malloc left it.
linux_handle_copy_files_create ==
    /\ platform = "linux"
    /\ disp.handler = "copy"
    /\ disp.pc = "create"
    /\ disp.i < disp.num_files
    /\ LET k == disp.i + 1 IN
       /\ tasks' = [tasks EXCEPT !["copy"][k].mode = disp.mode,
                                 !["copy"][k].dst_path = "live"]
       /\ \E ok \in BOOLEAN :
            thr' = IF ok THEN [thr EXCEPT !["copy"][k] = StartedThread]
                   ELSE thr
    /\ disp' = [disp EXCEPT !.i = @ + 1]
    /\ UNCHANGED <<results, dispOthers>>

\* The same loop in the windows build: CreateThread; when it returns NULL
\* the handles of the threads created so far are closed, their dst_path
\* and the arrays are freed, and the handler returns 1.
win_handle_copy_files_create ==
    /\ platform = "windows"
    /\ disp.handler = "copy"
    /\ disp.pc = "create"
    /\ disp.i < disp.num_files
    /\ LET k == disp.i + 1 IN
       \E ok \in BOOLEAN :
         IF ok
         THEN /\ tasks' = [tasks EXCEPT !["copy"][k].mode = disp.mode,
                                        !["copy"][k].dst_path = "live"]
              /\ thr' = [thr EXCEPT !["copy"][k] = StartedThread]
              /\ disp' = [disp EXCEPT !.i = @ + 1]
         ELSE /\ tasks' = [tasks EXCEPT !["copy"] =
                             [j \in Files |->
                                IF j < k
                                THEN [@[j] EXCEPT !.dst_path = "freed"]
                                ELSE IF j = k
                                THEN [@[j] EXCEPT !.mode = disp.mode,
                                                  !.dst_path = "live"]
                                ELSE @[j]]]
              /\ thr' = [thr EXCEPT !["copy"] =
                           [j \in Files |->
                              IF j < k THEN [@[j] EXCEPT !.handle = "closed"]
                              ELSE IF j = k
                              THEN [@[j] EXCEPT !.handle = "null"]
                              ELSE @[j]]]
              /\ disp' = [disp EXCEPT !.freed = @ \cup {"copy"},
                                      !.ret = 1, !.pc = "done"]
    /\ UNCHANGED <<results, dispOthers>>

\* The creation loop ends (i == num_files) and the waiting loop begins.
handle_copy_files_created ==
    /\ disp.handler = "copy"
    /\ disp.pc = "create"
    /\ disp.i = disp.num_files
    /\ disp' = [disp EXCEPT !.pc = "join", !.i = 0]
    /\ UNCHANGED <<tasks, thr, results, dispOthers>>

\* pthread_join(threads[i], NULL): returns once the thread has terminated.
\* On a threads[i] that pthread_create never assigned the behaviour is
\* undefined: the call returns at once with an error, or the process dies.
linux_handle_copy_files_join ==
    /\ platform = "linux"
    /\ disp.handler = "copy"
    /\ disp.pc = "join"
    /\ disp.i < disp.num_files
    /\ LET k == disp.i + 1 IN
       IF thr["copy"][k].handle = "valid"
       THEN /\ thr["copy"][k].pc = "done"
            /\ disp' = [disp EXCEPT !.i = @ + 1]
       ELSE \/ disp' = [disp EXCEPT !.i = @ + 1]
            \/ disp' = [disp EXCEPT !.pc = "crashed"]
    /\ UNCHANGED <<tasks, thr, results, dispOthers>>

\* WaitForSingleObject(threads[i], INFINITE); CloseHandle(threads[i]);
win_handle_copy_files_join ==
    /\ platform = "windows"
    /\ disp.handler = "copy"
    /\ disp.pc = "join"
    /\ disp.i < disp.num_files
    /\ LET k == disp.i + 1 IN
       /\ thr["copy"][k].pc = "done"
       /\ thr' = [thr EXCEPT !["copy"][k].handle = "closed"]
    /\ disp' = [disp EXCEPT !.i = @ + 1]
    /\ UNCHANGED <<tasks, results, dispOthers>>

\* The waiting loop ends: print_copy_results is called.
handle_copy_files_joined ==
    /\ disp.handler = "copy"
    /\ disp.pc = "join"
    /\ disp.i = disp.num_files
    /\ disp' = [disp EXCEPT !.pc = "report", !.i = 0]
    /\ UNCHANGED <<tasks, thr, results, dispOthers>>

\* for (i ...) free(tasks[i].dst_path); free(tasks); free(threads);
\* return 0;
handle_copy_files_cleanup ==
    /\ disp.handler = "copy"
    /\ disp.pc = "cleanup"
    /\ tasks' = [tasks EXCEPT !["copy"] =
                   [j \in Files |->
                      IF j <= disp.num_files
                      THEN [@[j] EXCEPT !.dst_path = "freed"] ELSE @[j]]]
    /\ disp' = [disp EXCEPT !.freed = @ \cup {"copy"}, !.ret = 0,
                            !.pc = "done"]
    /\ UNCHANGED <<thr, results, dispOthers>>

\* handle_copy_files with any mode and any number of files the command line
\* can give (the linux build takes num_files = argc - 6 as it comes, so
\* also 0; the windows build returns early for num_files <= 0).
CopyInit ==
    /\ platform \in Platforms
    /\ mi = MiIdle
    /\ rng = RngIdle
    /\ gtf = GtfIdle
    /\ dio = DioIdle
    /\ mm = MmapIdle
    /\ \E n \in 0..MaxFiles, m \in CopyModes :
         /\ platform = "windows" => n >= 1
         /\ disp = DispFrame("copy", n, m)
    /\ tasks = [ph \in Phases |-> [k \in Files |-> TaskRecord]]
    /\ thr = [ph \in Phases |-> [k \in Files |-> ThreadRecord]]
    /\ results = [k \in Files |-> ResultRecord]

CopyNext ==
    \/ linux_handle_copy_files_create
    \/ win_handle_copy_files_create
    \/ handle_copy_files_created
    \/ linux_handle_copy_files_join
    \/ win_handle_copy_files_join
    \/ handle_copy_files_joined
    \/ print_copy_results
    \/ handle_copy_files_cleanup
    \/ \E k \in Files : Worker("copy", k)

SpecCopy == CopyInit /\ [][CopyNext]_vars

\* -------------------------------------------------------- handle_benchmark

\* The record of a thread that has been joined or whose handle has been
\* closed: once the thread has terminated its locals are gone.
Joined(t) ==
    IF t.pc = "done"
    THEN [ThreadRecord EXCEPT !.handle = "closed", !.pc = "done"]
    ELSE [t EXCEPT !.handle = "closed"]

\* The mode the tasks of a benchmark pass are given.
PassMode(ph) ==
    IF ph = "gen" THEN "GENERATE_TEST_FILES"
    ELSE IF ph = "mem" THEN "DIRECT_IO_MEMORY_IMPACT" ELSE "DIRECT_IO"

\* The first num_files tasks and threads of a pass.
Pass(n) == 1..n

\* results[i].size_mib = task.size_mib; results[i].memory_duration =
\* task.duration; results[i].memory_speed = task.speed;     (memory pass)
\* results[i].disk_duration = task.duration; results[i].disk_speed =
\* task.speed;                                                (disk pass)
\* gs, gd, gp are what is read from a field no one assigned.
Collect(r, ph, task, gs, gd, gp) ==
    IF ph = "mem"
    THEN [r EXCEPT !.size_mib = ReadField(task.size_mib, gs),
                   !.memory_duration = ReadField(task.duration, gd),
                   !.memory_speed = ReadField(task.speed, gp)]
    ELSE [r EXCEPT !.disk_duration = ReadField(task.duration, gd),
                   !.disk_speed = ReadField(task.speed, gp)]

\* Generation loop of the linux build, one file: fill in gen_tasks[i],
\* pthread_create(&gen_threads[i], NULL, generate_file_thread, ...), whose
\* result is not looked at.
linux_handle_benchmark_gen_create ==
    /\ platform = "linux"
    /\ disp.handler = "benchmark"
    /\ disp.phase = "gen"
    /\ disp.pc = "create"
    /\ disp.i < disp.num_files
    /\ LET k == disp.i + 1 IN
       /\ tasks' = [tasks EXCEPT !["gen"][k].mode = PassMode("gen"),
                                 !["gen"][k].dst_path = "live"]
       /\ \E ok \in BOOLEAN :
            thr' = IF ok THEN [thr EXCEPT !["gen"][k] = StartedThread]
                   ELSE thr
    /\ disp' = [disp EXCEPT !.i = @ + 1]
    /\ UNCHANGED <<results, dispOthers>>

\* The generation loop ends and the joining loop begins.
linux_handle_benchmark_gen_created ==
    /\ platform = "linux"
    /\ disp.handler = "benchmark"
    /\ disp.phase = "gen"
    /\ disp.pc = "create"
    /\ disp.i = disp.num_files
    /\ disp' = [disp EXCEPT !.pc = "join", !.i = 0]
    /\ UNCHANGED <<tasks, thr, results, dispOthers>>

\* pthread_join(gen_threads[i], NULL); undefined on a gen_threads[i] that
\* was never assigned.
linux_handle_benchmark_gen_join ==
    /\ platform = "linux"
    /\ disp.handler = "benchmark"
    /\ disp.phase = "gen"
    /\ disp.pc = "join"
    /\ disp.i < disp.num_files
    /\ LET k == disp.i + 1 IN
       IF thr["gen"][k].handle = "valid"
       THEN /\ thr["gen"][k].pc = "done"
            /\ thr' = [thr EXCEPT !["gen"][k] = Joined(@)]
            /\ disp' = [disp EXCEPT !.i = @ + 1]
       ELSE /\ \/ disp' = [disp EXCEPT !.i = @ + 1]
               \/ disp' = [disp EXCEPT !.pc = "crashed"]
            /\ UNCHANGED thr
    /\ UNCHANGED <<tasks, results, dispOthers>>

\* The joining loop ends; results is allocated; the memory pass begins.
linux_handle_benchmark_gen_joined ==
    /\ platform = "linux"
    /\ disp.handler = "benchmark"
    /\ disp.phase = "gen"
    /\ disp.pc = "join"
    /\ disp.i = disp.num_files
    /\ disp' = [disp EXCEPT !.phase = "mem", !.pc = "run", !.i = 0]
    /\ UNCHANGED <<tasks, thr, results, dispOthers>>

\* Memory and disk loops of the linux build, one file: CopyTask task (a
\* local of the loop body) is filled in and copy_file_thread(&task) is
\* called on the main thread.
linux_handle_benchmark_call ==
    /\ platform = "linux"
    /\ disp.handler = "benchmark"
    /\ disp.phase \in {"mem", "disk"}
    /\ disp.pc = "run"
    /\ disp.i < disp.num_files
    /\ LET k == disp.i + 1 IN
       /\ tasks' = [tasks EXCEPT ![disp.phase][k] =
                      [TaskRecord EXCEPT !.mode = PassMode(disp.phase),
                                         !.dst_path = "live"]]
       /\ thr' = [thr EXCEPT ![disp.phase][k] =
                    [ThreadRecord EXCEPT !.pc = "start", !.inline = TRUE]]
    /\ disp' = [disp EXCEPT !.pc = "call"]
    /\ UNCHANGED <<results, dispOthers>>

\* copy_file_thread has returned: results[i] takes the task's fields,
\* free(task.dst_path), and task goes out of scope.
linux_handle_benchmark_collect ==
    /\ platform = "linux"
    /\ disp.handler = "benchmark"
    /\ disp.pc = "call"
    /\ LET k == disp.i + 1
           ph == disp.phase
       IN
       /\ thr[ph][k].pc = "done"
       /\ \E gs \in GarbageDoubles, gd \in GarbageDoubles,
             gp \in GarbageDoubles :
            results' = [results EXCEPT
                          ![k] = Collect(@, ph, tasks[ph][k], gs, gd, gp)]
       /\ tasks' = [tasks EXCEPT ![ph][k] =
                      [TaskRecord EXCEPT !.mode = PassMode(ph),
                                         !.dst_path = "freed"]]
       /\ thr' = [thr EXCEPT ![ph][k] = [Joined(@) EXCEPT !.inline = TRUE]]
    /\ disp' = [disp EXCEPT !.pc = "run", !.i = @ + 1]
    /\ UNCHANGED dispOthers

\* A loop of the linux build ends: the disk loop follows the memory loop,
\* the statistics follow the disk loop.
linux_handle_benchmark_next_pass ==
    /\ platform = "linux"
    /\ disp.handler = "benchmark"
    /\ disp.phase \in {"mem", "disk"}
    /\ disp.pc = "run"
    /\ disp.i = disp.num_files
    /\ disp' = IF disp.phase = "mem"
               THEN [disp EXCEPT !.phase = "disk", !.i = 0]
               ELSE [disp EXCEPT !.pc = "stats", !.i = 0]
    /\ UNCHANGED <<tasks, thr, results, dispOthers>>

\* WaitForMultipleObjects(n, handles, TRUE, INFINITE) fails at once when
\* one of the handles is not the handle of a thread.
win_WaitFails(ph, n) == \E k \in Pass(n) : thr[ph][k].handle # "valid"

\* bWaitAll = FALSE: the wait returns when one of the threads has
\* terminated.
WaitSatisfied_Any(ph, n) == \E k \in Pass(n) : thr[ph][k].pc = "done"

\* bWaitAll = TRUE: the wait returns when all the threads have terminated.
WaitSatisfied(ph, n) == \A k \in Pass(n) : thr[ph][k].pc = "done"

\* An array of tasks after free(tasks): what it held is no one's any more.
FreedTasks(ts, n) ==
    [j \in Files |-> IF j \in Pass(n)
                     THEN [TaskRecord EXCEPT !.mode = ts[j].mode,
                                             !.dst_path = "freed"]
                     ELSE ts[j]]

\* gen_tasks[i].mode = GENERATE_TEST_FILES, for every file.
win_handle_benchmark_gen_tasks ==
    /\ platform = "windows"
    /\ disp.handler = "benchmark"
    /\ disp.pc = "setup"
    /\ tasks' = [tasks EXCEPT !["gen"] =
                   [j \in Files |->
                      IF j \in Pass(disp.num_files)
                      THEN [@[j] EXCEPT !.mode = PassMode("gen"),
                                        !.dst_path = "live"]
                      ELSE @[j]]]
    /\ disp' = [disp EXCEPT !.pc = "create"]
    /\ UNCHANGED <<thr, results, dispOthers>>

\* active_handles[i] = CreateThread(..., copy_file_thread, &gen_tasks[i]);
\* if (active_handles[i] == NULL) return 1;
win_handle_benchmark_gen_create ==
    /\ platform = "windows"
    /\ disp.handler = "benchmark"
    /\ disp.phase = "gen"
    /\ disp.pc = "create"
    /\ disp.i < disp.num_files
    /\ \E ok \in BOOLEAN :
         IF ok
         THEN /\ thr' = [thr EXCEPT !["gen"][disp.i + 1] = StartedThread]
              /\ disp' = [disp EXCEPT !.i = @ + 1]
         ELSE /\ thr' = [thr EXCEPT !["gen"][disp.i + 1].handle = "null"]
              /\ disp' = [disp EXCEPT !.ret = 1, !.pc = "done"]
    /\ UNCHANGED <<tasks, results, dispOthers>>

\* wait_result = WaitForMultipleObjects(num_files, active_handles, TRUE,
\* INFINITE); if (wait_result == WAIT_FAILED) return 1;
win_handle_benchmark_gen_wait ==
    /\ platform = "windows"
    /\ disp.handler = "benchmark"
    /\ disp.phase = "gen"
    /\ disp.pc = "create"
    /\ disp.i = disp.num_files
    /\ IF win_WaitFails("gen", disp.num_files)
       THEN disp' = [disp EXCEPT !.ret = 1, !.pc = "done"]
       ELSE /\ WaitSatisfied("gen", disp.num_files)
            /\ disp' = [disp EXCEPT !.pc = "codes", !.i = 0]
    /\ UNCHANGED <<tasks, thr, results, dispOthers>>

\* The loop over GetExitCodeThread and CloseHandle, and what follows it:
\* if (!all_success) { free the paths; free(gen_tasks); return 1; }
win_handle_benchmark_gen_codes ==
    /\ platform = "windows"
    /\ disp.handler = "benchmark"
    /\ disp.pc = "codes"
    /\ LET all_success ==
             \A k \in Pass(disp.num_files) : thr["gen"][k].exit = 0
       IN
       /\ thr' = [thr EXCEPT !["gen"] =
                    [j \in Files |-> IF j \in Pass(disp.num_files)
                                     THEN Joined(@[j]) ELSE @[j]]]
       /\ IF all_success
          THEN /\ disp' = [disp EXCEPT !.all_success = TRUE,
                                       !.phase = "mem", !.pc = "create"]
               /\ UNCHANGED tasks
          ELSE /\ disp' = [disp EXCEPT !.all_success = FALSE,
                                       !.freed = @ \cup {"gen"},
                                       !.ret = 1, !.pc = "done"]
               /\ tasks' = [tasks EXCEPT !["gen"] =
                              FreedTasks(@, disp.num_files)]
    /\ UNCHANGED <<results, dispOthers>>

\* Memory pass, one file: fill in tasks[i]; threads[i] = CreateThread(...);
\* if (threads[i] == NULL) { free the paths of tasks 0..i; free(tasks);
\* free(threads); return 1; }
win_handle_benchmark_mem_create ==
    /\ platform = "windows"
    /\ disp.handler = "benchmark"
    /\ disp.phase = "mem"
    /\ disp.pc = "create"
    /\ disp.i < disp.num_files
    /\ LET k == disp.i + 1 IN
       \E ok \in BOOLEAN :
         IF ok
         THEN /\ tasks' = [tasks EXCEPT !["mem"][k].mode = PassMode("mem"),
                                        !["mem"][k].dst_path = "live"]
              /\ thr' = [thr EXCEPT !["mem"][k] = StartedThread]
              /\ disp' = [disp EXCEPT !.i = @ + 1]
         ELSE /\ tasks' = [tasks EXCEPT !["mem"] =
                             [FreedTasks(@, k) EXCEPT
                                ![k].mode = PassMode("mem")]]
              /\ thr' = [thr EXCEPT !["mem"][k].handle = "null"]
              /\ disp' = [disp EXCEPT !.freed = @ \cup {"mem"},
                                      !.ret = 1, !.pc = "done"]
    /\ UNCHANGED <<results, dispOthers>>

\* Disk pass, one file: fill in disk_tasks[i]; disk_threads[i] =
\* CreateThread(...); if (!disk_threads[i]) { wprintf(...); } and on.
win_handle_benchmark_disk_create ==
    /\ platform = "windows"
    /\ disp.handler = "benchmark"
    /\ disp.phase = "disk"
    /\ disp.pc = "create"
    /\ disp.i < disp.num_files
    /\ LET k == disp.i + 1 IN
       /\ tasks' = [tasks EXCEPT !["disk"][k].mode = PassMode("disk"),
                                 !["disk"][k].dst_path = "live"]
       /\ \E ok \in BOOLEAN :
            thr' = IF ok THEN [thr EXCEPT !["disk"][k] = StartedThread]
                   ELSE [thr EXCEPT !["disk"][k].handle = "null"]
    /\ disp' = [disp EXCEPT !.i = @ + 1]
    /\ UNCHANGED <<results, dispOthers>>

\* WaitForMultipleObjects(num_files, threads, TRUE, INFINITE); whose
\* result is not looked at (memory and disk passes).
win_handle_benchmark_wait ==
    /\ platform = "windows"
    /\ disp.handler = "benchmark"
    /\ disp.phase \in {"mem", "disk"}
    /\ disp.pc = "create"
    /\ disp.i = disp.num_files
    /\ \/ win_WaitFails(disp.phase, disp.num_files)
       \/ WaitSatisfied(disp.phase, disp.num_files)
    /\ disp' = [disp EXCEPT !.pc = "collect", !.i = 0]
    /\ UNCHANGED <<tasks, thr, results, dispOthers>>

\* "Collect results and clean up", one file: results[i] takes the task's
\* fields; CloseHandle(threads[i]); free the task's paths.
win_handle_benchmark_collect ==
    /\ platform = "windows"
    /\ disp.handler = "benchmark"
    /\ disp.pc = "collect"
    /\ disp.i < disp.num_files
    /\ LET k == disp.i + 1
           ph == disp.phase
       IN
       /\ \E gs \in GarbageDoubles, gd \in GarbageDoubles,
             gp \in GarbageDoubles :
            results' = [results EXCEPT
                          ![k] = Collect(@, ph, tasks[ph][k], gs, gd, gp)]
       /\ tasks' = [tasks EXCEPT ![ph][k].dst_path = "freed"]
       /\ thr' = [thr EXCEPT ![ph][k] = Joined(@)]
    /\ disp' = [disp EXCEPT !.i = @ + 1]
    /\ UNCHANGED dispOthers

\* The collecting loop ends: free(tasks); free(threads); the disk pass
\* follows the memory pass, the statistics follow the disk pass.
win_handle_benchmark_collected ==
    /\ platform = "windows"
    /\ disp.handler = "benchmark"
    /\ disp.pc = "collect"
    /\ disp.i = disp.num_files
    /\ tasks' = [tasks EXCEPT ![disp.phase] = FreedTasks(@, disp.num_files)]
    /\ disp' = IF disp.phase = "mem"
               THEN [disp EXCEPT !.freed = @ \cup {"mem"},
                                 !.phase = "disk", !.pc = "create", !.i = 0]
               ELSE [disp EXCEPT !.freed = @ \cup {"disk"},
                                 !.pc = "stats", !.i = 0]
    /\ UNCHANGED <<thr, results, dispOthers>>

\* total_memory_duration = fmax(total_memory_duration, results[i]...),
\* for i = 0 .. n-1, from 0.
RECURSIVE FmaxDuration(_, _)
FmaxDuration(duration, n) ==
    IF n = 0 THEN QInt(0)
    ELSE QFmax(FmaxDuration(duration, n - 1), duration[n])

\* if (speed_ratio >= 0.95) "You may hit the memory bandwidth wall"
BandwidthWall(speed_ratio) == QGe(speed_ratio, QNorm(95, 100))

\* "Calculate total statistics" and the ratio.
handle_benchmark_stats ==
    /\ disp.handler = "benchmark"
    /\ disp.pc = "stats"
    /\ LET n == disp.num_files
           total_size == TotalSize([k \in Files |-> results[k].size_mib], n)
           total_memory_duration ==
               FmaxDuration([k \in Files |-> results[k].memory_duration], n)
           total_disk_duration ==
               FmaxDuration([k \in Files |-> results[k].disk_duration], n)
           avg_memory_speed == QDiv(total_size, total_memory_duration)
           avg_disk_speed == QDiv(total_size, total_disk_duration)
           speed_ratio == QDiv(avg_disk_speed, avg_memory_speed)
       IN  disp' = [disp EXCEPT
                      !.total_size = total_size,
                      !.total_memory_duration = total_memory_duration,
                      !.total_disk_duration = total_disk_duration,
                      !.avg_memory_speed = avg_memory_speed,
                      !.avg_disk_speed = avg_disk_speed,
                      !.speed_ratio = speed_ratio,
                      !.wall = BandwidthWall(speed_ratio),
                      !.pc = "cleanup"]
    /\ UNCHANGED <<tasks, thr, results, dispOthers>>

\* "Cleanup": the linux build frees the paths, gen_tasks, gen_threads and
\* results; the windows build, which has freed its tasks pass by pass,
\* frees results. return 0;
handle_benchmark_cleanup ==
    /\ disp.handler = "benchmark"
    /\ disp.pc = "cleanup"
    /\ IF platform = "linux"
       THEN /\ tasks' = [tasks EXCEPT !["gen"] =
                           FreedTasks(@, disp.num_files)]
            /\ disp' = [disp EXCEPT !.freed = @ \cup {"gen"}, !.ret = 0,
                                    !.pc = "done"]
       ELSE /\ UNCHANGED tasks
            /\ disp' = [disp EXCEPT !.ret = 0, !.pc = "done"]
    /\ UNCHANGED <<thr, results, dispOthers>>

\* handle_benchmark with any number of files it accepts (num_files > 0).
BenchInit ==
    /\ platform \in Platforms
    /\ mi = MiIdle
    /\ rng = RngIdle
    /\ gtf = GtfIdle
    /\ dio = DioIdle
    /\ mm = MmapIdle
    /\ \E n \in 1..MaxFiles :
         disp = [DispFrame("benchmark", n, "none") EXCEPT
                   !.pc = IF platform = "windows" THEN "setup" ELSE "create"]
    /\ tasks = [ph \in Phases |-> [k \in Files |-> TaskRecord]]
    /\ thr = [ph \in Phases |-> [k \in Files |-> ThreadRecord]]
    /\ results = [k \in Files |-> ResultRecord]

BenchNext ==
    \/ linux_handle_benchmark_gen_create
    \/ linux_handle_benchmark_gen_created
    \/ linux_handle_benchmark_gen_join
    \/ linux_handle_benchmark_gen_joined
    \/ linux_handle_benchmark_call
    \/ linux_handle_benchmark_collect
    \/ linux_handle_benchmark_next_pass
    \/ win_handle_benchmark_gen_tasks
    \/ win_handle_benchmark_gen_create
    \/ win_handle_benchmark_gen_wait
    \/ win_handle_benchmark_gen_codes
    \/ win_handle_benchmark_mem_create
    \/ win_handle_benchmark_disk_create
    \/ win_handle_benchmark_wait
    \/ win_handle_benchmark_collect
    \/ win_handle_benchmark_collected
    \/ handle_benchmark_stats
    \/ handle_benchmark_cleanup
    \/ \E ph \in {"gen", "mem", "disk"}, k \in Files :
         Worker(ph, k) \/ GenWorker(ph, k)

SpecBench == BenchInit /\ [][BenchNext]_vars

\* Either handler that reports aggregates: handle_copy_files (through
\* print_copy_results) or handle_benchmark.
ReportInit == CopyInit \/ BenchInit

ReportNext == CopyNext \/ BenchNext

SpecReport == ReportInit /\ [][ReportNext]_vars


\* --------------------------------------------- handle_generate_test_files

\* Creation loop of the linux build, one file: fill in tasks[i];
\* pthread_create(&threads[i], NULL, generate_file_thread, &tasks[i]);
\* whose result is not looked at.
linux_handle_generate_test_files_create ==
    /\ platform = "linux"
    /\ disp.handler = "generate"
    /\ disp.pc = "create"
    /\ disp.i < disp.num_files
    /\ LET k == disp.i + 1 IN
       /\ tasks' = [tasks EXCEPT !["gen"][k].mode = PassMode("gen"),
                                 !["gen"][k].dst_path = "live"]
       /\ \E ok \in BOOLEAN :
            thr' = IF ok THEN [thr EXCEPT !["gen"][k] = StartedThread]
                   ELSE thr
    /\ disp' = [disp EXCEPT !.i = @ + 1]
    /\ UNCHANGED <<results, dispOthers>>

\* The same loop in the windows build: threads[i] = CreateThread(...,
\* copy_file_thread, &tasks[i], ...); when it returns NULL the handles of
\* the threads created so far are closed, their paths, tasks and threads
\* are freed, and the handler returns 1.
win_handle_generate_test_files_create ==
    /\ platform = "windows"
    /\ disp.handler = "generate"
    /\ disp.pc = "create"
    /\ disp.i < disp.num_files
    /\ LET k == disp.i + 1 IN
       \E ok \in BOOLEAN :
         IF ok
         THEN /\ tasks' = [tasks EXCEPT !["gen"][k].mode = PassMode("gen"),
                                        !["gen"][k].dst_path = "live"]
              /\ thr' = [thr EXCEPT !["gen"][k] = StartedThread]
              /\ disp' = [disp EXCEPT !.i = @ + 1]
         ELSE /\ tasks' = [tasks EXCEPT !["gen"] =
                             [j \in Files |->
                                IF j < k
                                THEN [@[j] EXCEPT !.dst_path = "freed"]
                                ELSE IF j = k
                                THEN [@[j] EXCEPT !.mode = PassMode("gen"),
                                                  !.dst_path = "live"]
                                ELSE @[j]]]
              /\ thr' = [thr EXCEPT !["gen"] =
                           [j \in Files |->
                              IF j < k THEN [@[j] EXCEPT !.handle = "closed"]
                              ELSE IF j = k
                              THEN [@[j] EXCEPT !.handle = "null"]
                              ELSE @[j]]]
              /\ disp' = [disp EXCEPT !.freed = @ \cup {"gen"},
                                      !.ret = 1, !.pc = "done"]
    /\ UNCHANGED <<results, dispOthers>>

\* The creation loop ends; bool all_success = true; the waiting loop
\* begins.
handle_generate_test_files_created ==
    /\ disp.handler = "generate"
    /\ disp.pc = "create"
    /\ disp.i = disp.num_files
    /\ disp' = [disp EXCEPT !.pc = "join", !.i = 0, !.all_success = TRUE]
    /\ UNCHANGED <<tasks, thr, results, dispOthers>>

\* pthread_join(threads[i], &thread_result);
\* if ((long)thread_result != 0) all_success = false;
\* On a threads[i] that was never assigned the call is undefined: it
\* returns at once and leaves thread_result as it was, or the process dies.
linux_handle_generate_test_files_join ==
    /\ platform = "linux"
    /\ disp.handler = "generate"
    /\ disp.pc = "join"
    /\ disp.i < disp.num_files
    /\ LET k == disp.i + 1 IN
       IF thr["gen"][k].handle = "valid"
       THEN /\ thr["gen"][k].pc = "done"
            /\ disp' = [disp EXCEPT
                          !.i = @ + 1,
                          !.all_success = @ /\ thr["gen"][k].exit = 0]
       ELSE \/ \E garbage \in BOOLEAN :
                 disp' = [disp EXCEPT !.i = @ + 1,
                                      !.all_success = @ /\ garbage]
            \/ disp' = [disp EXCEPT !.pc = "crashed"]
    /\ UNCHANGED <<tasks, thr, results, dispOthers>>

\* WaitForSingleObject(threads[i], INFINITE);
\* GetExitCodeThread(threads[i], &result);
\* if (result != 0) all_success = false;  CloseHandle(threads[i]);
win_handle_generate_test_files_join ==
    /\ platform = "windows"
    /\ disp.handler = "generate"
    /\ disp.pc = "join"
    /\ disp.i < disp.num_files
    /\ LET k == disp.i + 1 IN
       /\ thr["gen"][k].pc = "done"
       /\ thr' = [thr EXCEPT !["gen"][k].handle = "closed"]
       /\ disp' = [disp EXCEPT !.i = @ + 1,
                               !.all_success = @ /\ thr["gen"][k].exit = 0]
    /\ UNCHANGED <<tasks, results, dispOthers>>

\* The waiting loop ends: the results are printed.
handle_generate_test_files_joined ==
    /\ disp.handler = "generate"
    /\ disp.pc = "join"
    /\ disp.i = disp.num_files
    /\ disp' = [disp EXCEPT !.pc = "report", !.i = 0]
    /\ UNCHANGED <<tasks, thr, results, dispOthers>>

\* (file_size * num_files) / (1024.0 * 1024.0)
GeneratedMiB(file_size, num_files) == QNorm(file_size * num_files, MiB)

\* "Print results": total_duration is the largest tasks[i].duration;
\* "Average Speed" is (file_size * num_files) / (1024.0 * 1024.0) /
\* total_duration.
handle_generate_test_files_report ==
    /\ disp.handler = "generate"
    /\ disp.pc = "report"
    /\ \E gd \in [Files -> GarbageDoubles] :
         LET duration == [k \in Files |->
                             ReadField(tasks["gen"][k].duration, gd[k])]
             total_size == GeneratedMiB(disp.file_size, disp.num_files)
             total_duration == TotalDuration(duration, disp.num_files)
         IN  disp' = [disp EXCEPT
                        !.total_size = total_size,
                        !.total_duration = total_duration,
                        !.avg_speed = AverageSpeed(total_size, total_duration),
                        !.pc = "cleanup"]
    /\ UNCHANGED <<tasks, thr, results, dispOthers>>

\* free the paths; free(tasks); free(threads);
\* return all_success ? 0 : 1;
handle_generate_test_files_cleanup ==
    /\ disp.handler = "generate"
    /\ disp.pc = "cleanup"
    /\ tasks' = [tasks EXCEPT !["gen"] =
                   [j \in Files |->
                      IF j \in Pass(disp.num_files)
                      THEN [@[j] EXCEPT !.dst_path = "freed"] ELSE @[j]]]
    /\ disp' = [disp EXCEPT !.freed = @ \cup {"gen"},
                            !.ret = IF disp.all_success THEN 0 ELSE 1,
                            !.pc = "done"]
    /\ UNCHANGED <<thr, results, dispOthers>>

\* handle_generate_test_files with any size and number of files it accepts
\* (file_size != 0, num_files > 0).
GenInit ==
    /\ platform \in Platforms
    /\ mi = MiIdle
    /\ rng = RngIdle
    /\ gtf = GtfIdle
    /\ dio = DioIdle
    /\ mm = MmapIdle
    /\ \E n \in 1..MaxFiles, size \in TaskSizes \ {0} :
         disp = [DispFrame("generate", n, "GENERATE_TEST_FILES") EXCEPT
                   !.file_size = size]
    /\ tasks = [ph \in Phases |-> [k \in Files |-> TaskRecord]]
    /\ thr = [ph \in Phases |-> [k \in Files |-> ThreadRecord]]
    /\ results = [k \in Files |-> ResultRecord]

GenNext ==
    \/ linux_handle_generate_test_files_create
    \/ win_handle_generate_test_files_create
    \/ handle_generate_test_files_created
    \/ linux_handle_generate_test_files_join
    \/ win_handle_generate_test_files_join
    \/ handle_generate_test_files_joined
    \/ handle_generate_test_files_report
    \/ handle_generate_test_files_cleanup
    \/ \E k \in Files :
         \/ linux_generate_file_thread_run("gen", k)
         \/ linux_generate_file_thread_finish("gen", k)
         \/ win_copy_file_thread_start("gen", k)
         \/ win_copy_file_thread_generate("gen", k)

SpecGen == GenInit /\ [][GenNext]_vars

\* -------------------------------------------------------- RandomGenerator

\* A uint64_t is modelled by its eight bytes, least significant first (the
\* order in which both builds store it in the buffer), so that products are
\* taken modulo 2^64 exactly.
Byte == 0..255

\* gen->seed = 0x0123456789ABCDEF;
SEED == <<239, 205, 171, 137, 103, 69, 35, 1>>

\* gen->multiplier = 6364136223846793005ULL;      (0x5851F42D4C957F2D)
MULTIPLIER == <<45, 127, 149, 76, 45, 244, 81, 88>>

\* gen->increment = 1;
INCREMENT == <<1, 0, 0, 0, 0, 0, 0, 0>>

\* sizeof(uint64_t)
WordBytes == 8

\* The sum of a[i] * b[k - i], for i = 0 .. j (bytes counted from 0).
RECURSIVE U64Column(_, _, _, _)
U64Column(a, b, k, j) ==
    IF j < 0 THEN 0
    ELSE a[j + 1] * b[k - j + 1] + U64Column(a, b, k, j - 1)

\* The bytes k .. 7 of a * b, given the carry into byte k.
RECURSIVE U64MulFrom(_, _, _, _)
U64MulFrom(a, b, k, carry) ==
    IF k = WordBytes THEN <<>>
    ELSE LET t == U64Column(a, b, k, k) + carry
         IN  <<t % 256>> \o U64MulFrom(a, b, k + 1, t \div 256)

\* a * b in uint64_t arithmetic (modulo 2^64).
U64Mul(a, b) == U64MulFrom(a, b, 0, 0)

\* The bytes k .. 7 of a + b, given the carry into byte k.
RECURSIVE U64AddFrom(_, _, _, _)
U64AddFrom(a, b, k, carry) ==
    IF k = WordBytes THEN <<>>
    ELSE LET t == a[k + 1] + b[k + 1] + carry
         IN  <<t % 256>> \o U64AddFrom(a, b, k + 1, t \div 256)

\* a + b in uint64_t arithmetic (modulo 2^64).
U64Add(a, b) == U64AddFrom(a, b, 0, 0)

\* A slip: the increment is left out of the step.
LcgNext_NoIncrement(gen) == U64Mul(gen.seed, gen.multiplier)

\* gen->seed * gen->multiplier + gen->increment
LcgNext(gen) == U64Add(U64Mul(gen.seed, gen.multiplier), gen.increment)

\* What a RandomGenerator on the stack holds before it is initialised, and
\* what a buffer holds when it comes from the allocator: not known.
GarbageWords == {<<0, 0, 0, 0, 0, 0, 0, 0>>, <<255, 1, 2, 3, 4, 5, 6, 7>>}

GarbageBytes == {0, 165}

\* A slip: the increment is not assigned.
InitialGenerator_NoIncrement(before) ==
    [seed |-> SEED, multiplier |-> MULTIPLIER, increment |-> before.increment]

\* init_random_generator(gen): what *gen is afterwards.
InitialGenerator(before) ==
    [seed |-> SEED, multiplier |-> MULTIPLIER, increment |-> INCREMENT]

\* size / sizeof(uint64_t)
NumElements(size) == size \div WordBytes

\* ptr[i] = gen->seed: the buffer with its word i (counted from 0)
\* replaced.
StoreWord(buffer, i, word) ==
    [p \in DOMAIN buffer |->
       IF WordBytes * i < p /\ p <= WordBytes * (i + 1)
       THEN word[p - WordBytes * i] ELSE buffer[p]]

\* Lengths of the buffers that are filled, in bytes.
MaxFillBytes == 17

\* The runs that are compared.
Runs2 == {1, 2}

\* A run: a generator that is not initialised yet and a buffer of size
\* bytes as the allocator left it.
\*   pc      "init", "fill" (in the loop), "done"
\*   before  the buffer as it was when the run began
RngFrame(size, word, byte) ==
    [pc |-> "init", size |-> size,
     gen |-> [seed |-> word, multiplier |-> word, increment |-> word],
     buffer |-> [p \in 1..size |-> byte],
     before |-> [p \in 1..size |-> byte],
     num_elements |-> 0, i |-> 0]

rngOthers == <<platform, dio, mm, dispVars, gtf, mi>>

\* init_random_generator(&gen); and the entry of
\* fill_buffer_with_random_data: num_elements = size / sizeof(uint64_t).
init_random_generator(r) ==
    /\ rng # RngIdle
    /\ rng[r].pc = "init"
    /\ rng' = [rng EXCEPT ![r].gen = InitialGenerator(@),
                          ![r].num_elements = NumElements(rng[r].size),
                          ![r].i = 0,
                          ![r].pc = "fill"]
    /\ UNCHANGED rngOthers

\* for (i = 0; i < num_elements; i++) {
\*     gen->seed = gen->seed * gen->multiplier + gen->increment;
\*     ptr[i] = gen->seed; }                         one iteration
fill_buffer_with_random_data_iterate(r) ==
    /\ rng # RngIdle
    /\ rng[r].pc = "fill"
    /\ rng[r].i < rng[r].num_elements
    /\ LET seed == LcgNext(rng[r].gen) IN
       rng' = [rng EXCEPT ![r].gen.seed = seed,
                          ![r].buffer = StoreWord(@, rng[r].i, seed),
                          ![r].i = @ + 1]
    /\ UNCHANGED rngOthers

\* The loop ends (i == num_elements); memory barrier; return.
fill_buffer_with_random_data_return(r) ==
    /\ rng # RngIdle
    /\ rng[r].pc = "fill"
    /\ rng[r].i = rng[r].num_elements
    /\ rng' = [rng EXCEPT ![r].pc = "done"]
    /\ UNCHANGED rngOthers

\* Two independent runs with the same byte length; what the generators and
\* the buffers hold beforehand is independent too.
RngInit ==
    /\ platform \in Platforms
    /\ mi = MiIdle
    /\ dio = DioIdle
    /\ mm = MmapIdle
    /\ DispIdle
    /\ gtf = GtfIdle
    /\ \E size \in 0..MaxFillBytes :
         rng \in [Runs2 -> {RngFrame(size, w, b) :
                              w \in GarbageWords, b \in GarbageBytes}]

RngNext ==
    \E r \in Runs2 :
      \/ init_random_generator(r)
      \/ fill_buffer_with_random_data_iterate(r)
      \/ fill_buffer_with_random_data_return(r)

SpecRng == RngInit /\ [][RngNext]_vars

\* ------------------------------------------------------ generate_test_file

\* const size_t buf_size = 1024 * 1024;
linux_buf_size == 1024 * 1024

\* _aligned_malloc(512, 512); the buffer and the most one WriteFile is asked
\* for
win_buf_size == 512

GtfBufSize == IF platform = "linux" THEN linux_buf_size ELSE win_buf_size

\* The calls that run at the same time, one per worker thread.
Calls == {1, 2}

\* Short writes a call is let see.
MaxShortWrites == 1

\* The sizes asked for. The handlers pass what parse_size returns, a
\* multiple of 1 MiB; the function itself takes any uint64_t, and what is
\* left after a short write is any count. One and two buffers; less than a
\* buffer and not a multiple of 512; a buffer and a block; a buffer and a
\* tail. (On the windows build a buffer is one block: the passes of its loop
\* are alike, a few of them stand for the 2048 per MiB.)
GtfSizes(buf_size) ==
    {buf_size, 2 * buf_size, 700, buf_size + 512, buf_size + 700}

\* The length of the file at the path before the call: it does not exist,
\* or it is longer than anything asked for.
ExistingSizes(buf_size) == {0, 3 * buf_size}

\* The frame of one call of generate_test_file(path, size).
\*   pc         "open", "alloc", "fill", "loop", "close", "done"
\*   fd         the descriptor or handle of the file: "none", "open", "closed"
\*   flushed    fsync: "no" (not called), "ok", "failed"
\*   flushed_at the bytes written when fsync was called
\*   direct     the descriptor was opened with O_DIRECT
\*   gen        the call's own RandomGenerator (a local variable)
\*   filled     how many bytes of the buffer hold the generator's output
\*   to_write   the length the last write was asked for
\*   segments   the file as written: the lengths of the successful writes in
\*              order, each of them that many bytes from the start of the
\*              buffer, at the file position the one before ended at
\*   written    the sum of the bytes written
\*   length     the length of the file
\*   failed     a write has returned an error
GtfFrame(size, existing, word) ==
    [pc |-> "open", size |-> size, remaining |-> size, direct |-> FALSE,
     gen |-> [seed |-> word, multiplier |-> word, increment |-> word],
     owner |-> 0, filled |-> 0, to_write |-> 0, segments |-> <<>>,
     written |-> 0, shorts |-> 0, length |-> existing, existing |-> existing,
     fd |-> "none", flushed |-> "no", flushed_at |-> 0,
     failed |-> FALSE, lastError |-> 0, ret |-> 0]

gtfOthers == <<platform, dio, mm, dispVars, rng, mi>>

\* fd = open(path, O_WRONLY | O_CREAT | O_DIRECT, 0644);
\* if (fd < 0) { fd = open(path, O_WRONLY | O_CREAT, 0644);
\*               if (fd < 0) return -1; }
\* Neither open truncates a file that exists.
linux_generate_test_file_open(c) ==
    /\ platform = "linux"
    /\ gtf # GtfIdle
    /\ gtf[c].pc = "open"
    /\ \E how \in {"direct", "buffered", "failed"} :
         gtf' = IF how = "failed"
                THEN [gtf EXCEPT ![c].pc = "done", ![c].ret = -1]
                ELSE [gtf EXCEPT ![c].direct = (how = "direct"),
                                 ![c].fd = "open",
                                 ![c].pc = "alloc"]
    /\ UNCHANGED gtfOthers

\* if (posix_memalign(&buf, 512, buf_size)) { close(fd); return -1; }
linux_generate_test_file_alloc(c) ==
    /\ platform = "linux"
    /\ gtf # GtfIdle
    /\ gtf[c].pc = "alloc"
    /\ \E ok \in BOOLEAN :
         gtf' = IF ok THEN [gtf EXCEPT ![c].pc = "fill"]
                ELSE [gtf EXCEPT ![c].fd = "closed",
                                 ![c].pc = "done", ![c].ret = -1]
    /\ UNCHANGED gtfOthers

\* RandomGenerator gen; init_random_generator(&gen);
\* fill_buffer_with_random_data(&gen, buf, buf_size);
\* gen is the call's own: owner records whose frame it lives in.
generate_test_file_fill(c) ==
    /\ gtf # GtfIdle
    /\ gtf[c].pc = "fill"
    /\ gtf' = [gtf EXCEPT ![c].gen = InitialGenerator(@),
                          ![c].owner = c,
                          ![c].filled = WordBytes * NumElements(GtfBufSize),
                          ![c].pc = "loop"]
    /\ UNCHANGED gtfOthers

\* size_t to_write = (remaining < buf_size) ? remaining : buf_size;
\* to_write = (to_write / 512) * 512;
linux_GtfToWrite(remaining) ==
    (Min(remaining, linux_buf_size) \div 512) * 512

\* remaining -= written;
GtfRemainingAfter(remaining, to_write, written) == remaining - written

\* The file after a write of n bytes from the start of the buffer at the
\* position the writes so far ended at.
GtfAppend(f, n) ==
    [f EXCEPT !.segments = IF n > 0 THEN Append(@, n) ELSE @,
              !.written = @ + n,
              !.length = Max(@, f.written + n)]

\* One pass through the body of while (remaining > 0):
\*   ssize_t written = write(fd, buf, to_write);
\*   if (written < 0) { free(buf); close(fd); return -1; }
\*   remaining -= written;
\* write(2) to a regular file returns 0 only when it is asked for 0 bytes.
linux_generate_test_file_iterate(c) ==
    /\ platform = "linux"
    /\ gtf # GtfIdle
    /\ gtf[c].pc = "loop"
    /\ gtf[c].remaining > 0
    /\ LET f == gtf[c]
           to_write == linux_GtfToWrite(f.remaining) IN
       \E written \in linux_WriteResults(to_write) :
         /\ written = 0 => to_write = 0
         /\ (0 < written /\ written < to_write) => f.shorts < MaxShortWrites
         /\ gtf' = IF written < 0
                   THEN [gtf EXCEPT ![c].to_write = to_write,
                                    ![c].failed = TRUE,
                                    ![c].fd = "closed",
                                    ![c].pc = "done", ![c].ret = -1]
                   ELSE [gtf EXCEPT ![c] =
                           [GtfAppend(f, written) EXCEPT
                              !.to_write = to_write,
                              !.shorts = IF written < to_write
                                         THEN @ + 1 ELSE @,
                              !.remaining = GtfRemainingAfter(
                                              @, to_write, written)]]
    /\ UNCHANGED gtfOthers

\* The loop has ended: free(buf);
\* if (fsync(fd) < 0) { close(fd); return -1; }
linux_generate_test_file_fsync(c) ==
    /\ platform = "linux"
    /\ gtf # GtfIdle
    /\ gtf[c].pc = "loop"
    /\ gtf[c].remaining = 0
    /\ \E ok \in BOOLEAN :
         gtf' = IF ok
                THEN [gtf EXCEPT ![c].flushed = "ok",
                                 ![c].flushed_at = gtf[c].written,
                                 ![c].pc = "close"]
                ELSE [gtf EXCEPT ![c].flushed = "failed",
                                 ![c].flushed_at = gtf[c].written,
                                 ![c].fd = "closed",
                                 ![c].pc = "done", ![c].ret = -1]
    /\ UNCHANGED gtfOthers

\* close(fd); return 0;
linux_generate_test_file_return(c) ==
    /\ platform = "linux"
    /\ gtf # GtfIdle
    /\ gtf[c].pc = "close"
    /\ gtf' = [gtf EXCEPT ![c].fd = "closed", ![c].pc = "done", ![c].ret = 0]
    /\ UNCHANGED gtfOthers

\* file_handle = CreateFileW(path, GENERIC_WRITE, 0, NULL, CREATE_ALWAYS,
\*                           FILE_ATTRIBUTE_NORMAL, NULL);
\* if (file_handle == INVALID_HANDLE_VALUE) return GetLastError();
\* CREATE_ALWAYS truncates a file that exists and leaves
\* ERROR_ALREADY_EXISTS as the last error then, 0 otherwise.
win_generate_test_file_open(c) ==
    /\ platform = "windows"
    /\ gtf # GtfIdle
    /\ gtf[c].pc = "open"
    /\ \/ \E e \in WinErrorCodes :
            gtf' = [gtf EXCEPT ![c].lastError = e, ![c].pc = "done",
                               ![c].ret = e]
       \/ \E e \in CreateAlwaysLastError :
            /\ (e = 0) <=> (gtf[c].existing = 0)
            /\ gtf' = [gtf EXCEPT ![c].lastError = e, ![c].length = 0,
                                  ![c].fd = "open",
                                  ![c].pc = "alloc"]
    /\ UNCHANGED gtfOthers

\* void *buffer = _aligned_malloc(512, 512);
\* if (!buffer) { CloseHandle(file_handle); return ERROR_NOT_ENOUGH_MEMORY; }
win_generate_test_file_alloc(c) ==
    /\ platform = "windows"
    /\ gtf # GtfIdle
    /\ gtf[c].pc = "alloc"
    /\ \E ok \in BOOLEAN :
         gtf' = IF ok THEN [gtf EXCEPT ![c].pc = "fill"]
                ELSE [gtf EXCEPT ![c].fd = "closed",
                                 ![c].pc = "done",
                                 ![c].ret = ERROR_NOT_ENOUGH_MEMORY]
    /\ UNCHANGED gtfOthers

\* DWORD to_write = (remaining < 512) ? (DWORD)remaining : 512;
win_GtfToWrite(remaining) == Min(remaining, win_buf_size)

\* One pass through the body of while (remaining > 0):
\*   if (!WriteFile(file_handle, buffer, to_write, &bytes_written, NULL)
\*       || bytes_written != to_write)
\*       { _aligned_free(buffer); CloseHandle(file_handle);
\*         return GetLastError(); }
\*   remaining -= to_write;
\* A WriteFile that returns TRUE leaves the last-error code as it was.
win_generate_test_file_iterate(c) ==
    /\ platform = "windows"
    /\ gtf # GtfIdle
    /\ gtf[c].pc = "loop"
    /\ gtf[c].remaining > 0
    /\ LET f == gtf[c]
           to_write == win_GtfToWrite(f.remaining) IN
       \E w \in win_WriteResults(to_write) : \E e \in WinErrorCodes :
         LET lastError == IF w.ok THEN f.lastError ELSE e IN
         gtf' = IF ~w.ok \/ w.n # to_write
                THEN [gtf EXCEPT ![c] =
                        [GtfAppend(f, w.n) EXCEPT
                           !.to_write = to_write,
                           !.failed = ~w.ok,
                           !.shorts = IF w.ok THEN @ + 1 ELSE @,
                           !.lastError = lastError,
                           !.fd = "closed",
                           !.pc = "done", !.ret = lastError]]
                ELSE [gtf EXCEPT ![c] =
                        [GtfAppend(f, w.n) EXCEPT
                           !.to_write = to_write,
                           !.remaining = @ - to_write]]
    /\ UNCHANGED gtfOthers

\* The loop has ended: _aligned_free(buffer); CloseHandle(file_handle);
\* return 0;
win_generate_test_file_return(c) ==
    /\ platform = "windows"
    /\ gtf # GtfIdle
    /\ gtf[c].pc = "loop"
    /\ gtf[c].remaining = 0
    /\ gtf' = [gtf EXCEPT ![c].fd = "closed", ![c].pc = "done", ![c].ret = 0]
    /\ UNCHANGED gtfOthers

\* Two workers generate two files of the same size at the same time.
GtfInit ==
    /\ platform \in Platforms
    /\ mi = MiIdle
    /\ dio = DioIdle
    /\ mm = MmapIdle
    /\ DispIdle
    /\ rng = RngIdle
    /\ \E size \in GtfSizes(GtfBufSize) :
         gtf \in [Calls -> {GtfFrame(size, x, w) :
                              x \in ExistingSizes(GtfBufSize),
                              w \in GarbageWords}]

GtfStep(c) ==
    \/ linux_generate_test_file_open(c)
    \/ linux_generate_test_file_alloc(c)
    \/ generate_test_file_fill(c)
    \/ linux_generate_test_file_iterate(c)
    \/ linux_generate_test_file_fsync(c)
    \/ linux_generate_test_file_return(c)
    \/ win_generate_test_file_open(c)
    \/ win_generate_test_file_alloc(c)
    \/ win_generate_test_file_iterate(c)
    \/ win_generate_test_file_return(c)

GtfNext == \E c \in Calls : GtfStep(c)

SpecGtf == GtfInit /\ [][GtfNext]_vars

\* The same, with every worker thread scheduled again and again: a call
\* that can take a step takes one. Nothing obliges the OS to fail a write:
\* the steps the scheduling guarantees are the ones in which no write
\* returns an error.
SpecGtfFair ==
    SpecGtf /\ \A c \in Calls : WF_vars(GtfStep(c) /\ ~gtf'[c].failed)


\* ------------------------------------- copy_using_direct_io_memory_impact

\* const size_t dma_block_size = 2 * 1024 * 1024;
dma_block_size == 2 * 1024 * 1024

\* sysconf(_SC_PAGESIZE); sys_info.dwPageSize
PageSizes == IF platform = "linux" THEN {4096, 65536} ELSE {4096}

\* a ^ b on one byte.
RECURSIVE XorByte(_, _)
XorByte(a, b) ==
    IF a = 0 THEN b
    ELSE IF b = 0 THEN a
    ELSE ((a + b) % 2) + 2 * XorByte(a \div 2, b \div 2)

\* a ^ b in uint64_t.
U64Xor(a, b) == [i \in 1..WordBytes |-> XorByte(a[i], b[i])]

\* volatile uint64_t checksum = 0;
ZeroChecksum == <<0, 0, 0, 0, 0, 0, 0, 0>>

\* What fill_buffer_with_random_data (with the generator as
\* init_random_generator leaves it) has put in a buffer: word n, counted
\* from 0, is the seed after n + 1 steps x -> x * multiplier + increment.
\* k steps in a row are one step x -> x * a + c with other a and c; the
\* words are found by doubling k instead of stepping n + 1 times.
LcgStep == [a |-> MULTIPLIER, c |-> INCREMENT]

\* Two times the steps of j.
LcgDouble(j) ==
    [a |-> U64Mul(j.a, j.a), c |-> U64Add(U64Mul(j.a, j.c), j.c)]

LcgApply(j, x) == U64Add(U64Mul(j.a, x), j.c)

\* floor(log2(n)), n > 0.
RECURSIVE Log2(_)
Log2(n) == IF n = 1 THEN 0 ELSE 1 + Log2(n \div 2)

\* <<1 step, 2 steps, 4 steps, ...>>, the last one as many steps as the
\* buffer has words.
RECURSIVE LcgPowersTo(_)
LcgPowersTo(e) ==
    IF e = 0 THEN <<LcgStep>>
    ELSE LET s == LcgPowersTo(e - 1) IN Append(s, LcgDouble(s[e]))

LcgPowers == LcgPowersTo(Log2(NumElements(MAX_READ_SIZE)))

\* x after n more single steps, n = n_0 * 2^e + n_1 * 2^(e+1) + ...
\* counted in units of 2^e steps.
RECURSIVE LcgJump(_, _, _)
LcgJump(x, n, e) ==
    IF n = 0 THEN x
    ELSE LcgJump(IF n % 2 = 1 THEN LcgApply(LcgPowers[e + 1], x) ELSE x,
                 n \div 2, e + 1)

\* ptr[n] after the fill.
BufferWord(n) == LcgJump(SEED, n + 1, 0)

\* The sizes the function is called with (st.st_size, any size): nothing; a
\* byte; a page; a page and a byte; a block; a block and a byte; two blocks
\* and a part of a page; more than the buffers hold.
MiSizes ==
    {0, 1, 4096, 4097, dma_block_size, dma_block_size + 1,
     2 * dma_block_size + 65536 + 8, MAX_READ_SIZE + dma_block_size + 1}

\* The frame of one call.
\*   pc         "alloc", "fill", "outer" (head of the outer loop), "block"
\*              (head of the inner loop), "verify" (a memcpy is done, its
\*              read-back is next), "chunk_end", "done"
\*   chunk_src, chunk_dst   the pointers, as offsets from the start of
\*              src_buffer and of dst_buffer
\*   copy       the last memcpy: len bytes from src_off to dst_off
\*   verified   the read-back of the last memcpy is done
\*   copied     the bytes all memcpy calls copied
\*   reads      the read-backs done
\*   words      the 8-byte words all read-backs have read
MiFrame(size, page_size) ==
    [pc |-> "alloc", file_size |-> size, page_size |-> page_size,
     src_buffer |-> "none", dst_buffer |-> "none", filled |-> 0,
     remaining |-> size, current_chunk |-> 0, chunk_remaining |-> 0,
     chunk_src |-> 0, chunk_dst |-> 0, tail |-> FALSE,
     copy |-> [src_off |-> 0, dst_off |-> 0, len |-> 0],
     verified |-> TRUE, copies |-> 0, reads |-> 0, words |-> 0,
     copied |-> 0,
     checksum |-> ZeroChecksum, lastError |-> 0, ret |-> 0]

miOthers == <<platform, dio, mm, dispVars, rng, gtf>>

\* if (posix_memalign(&src_buffer, page_size, MAX_READ_SIZE) != 0 ||
\*     posix_memalign(&dst_buffer, page_size, MAX_READ_SIZE) != 0)
\*     { free(src_buffer); free(dst_buffer); return -1; }
linux_copy_using_direct_io_memory_impact_alloc ==
    /\ platform = "linux"
    /\ mi # MiIdle
    /\ mi.pc = "alloc"
    /\ \E src_ok \in BOOLEAN, dst_ok \in BOOLEAN :
         mi' = IF src_ok /\ dst_ok
               THEN [mi EXCEPT !.src_buffer = "allocated",
                               !.dst_buffer = "allocated", !.pc = "fill"]
               ELSE [mi EXCEPT !.src_buffer = IF src_ok THEN "freed" ELSE @,
                               !.pc = "done", !.ret = -1]
    /\ UNCHANGED miOthers

\* src_buffer = VirtualAlloc(...); dst_buffer = VirtualAlloc(...);
\* if (!src_buffer || !dst_buffer)
\*     { VirtualFree the one that exists; return GetLastError(); }
win_copy_using_direct_io_memory_impact_alloc ==
    /\ platform = "windows"
    /\ mi # MiIdle
    /\ mi.pc = "alloc"
    /\ \E src_ok \in BOOLEAN, dst_ok \in BOOLEAN, e \in WinErrorCodes :
         mi' = IF src_ok /\ dst_ok
               THEN [mi EXCEPT !.src_buffer = "allocated",
                               !.dst_buffer = "allocated", !.pc = "fill"]
               ELSE [mi EXCEPT !.src_buffer = IF src_ok THEN "freed" ELSE @,
                               !.dst_buffer = IF dst_ok THEN "freed" ELSE @,
                               !.lastError = e,
                               !.pc = "done", !.ret = e]
    /\ UNCHANGED miOthers

\* RandomGenerator gen; init_random_generator(&gen);
\* fill_buffer_with_random_data(&gen, src_buffer, MAX_READ_SIZE);
\* remaining = file_size; current_src = src_buffer;
\* current_dst = dst_buffer; checksum = 0;
copy_using_direct_io_memory_impact_fill ==
    /\ mi # MiIdle
    /\ mi.pc = "fill"
    /\ mi' = [mi EXCEPT !.filled = WordBytes * NumElements(MAX_READ_SIZE),
                        !.remaining = mi.file_size,
                        !.checksum = ZeroChecksum,
                        !.pc = "outer"]
    /\ UNCHANGED miOthers

\* current_chunk = (remaining < MAX_READ_SIZE) ? remaining : MAX_READ_SIZE;
MiCurrentChunk(remaining) == Min(remaining, MAX_READ_SIZE)

\* Each chunk after the ones before it, not over them.
MiChunkStart_Advancing(done) == done

\* char *chunk_src = current_src; char *chunk_dst = current_dst;
\* current_src and current_dst stay at the start of the buffers: how many
\* bytes the chunks before have taken does not matter.
MiChunkStart(done) == 0

\* while (remaining > 0) { current_chunk = ...;
\*     chunk_remaining = current_chunk; chunk_src = ...; chunk_dst = ...;
copy_using_direct_io_memory_impact_chunk ==
    /\ mi # MiIdle
    /\ mi.pc = "outer"
    /\ mi.remaining > 0
    /\ LET current_chunk == MiCurrentChunk(mi.remaining)
           start == MiChunkStart(mi.file_size - mi.remaining) IN
       mi' = [mi EXCEPT !.current_chunk = current_chunk,
                        !.chunk_remaining = current_chunk,
                        !.chunk_src = start, !.chunk_dst = start,
                        !.tail = FALSE,
                        !.pc = "block"]
    /\ UNCHANGED miOthers

\* memcpy(dst, src, len): the frame after it.
MiMemcpy(f, len) ==
    [f EXCEPT !.copy = [src_off |-> f.chunk_src, dst_off |-> f.chunk_dst,
                        len |-> len],
              !.verified = FALSE,
              !.copies = @ + 1,
              !.copied = @ + len]

\* while (chunk_remaining >= dma_block_size) {
\*     chunk_dst = (char *)memcpy(chunk_dst, chunk_src, dma_block_size)
\*                 + dma_block_size;
\*     chunk_src += dma_block_size; chunk_remaining -= dma_block_size;
copy_using_direct_io_memory_impact_block ==
    /\ mi # MiIdle
    /\ mi.pc = "block"
    /\ mi.chunk_remaining >= dma_block_size
    /\ mi' = [MiMemcpy(mi, dma_block_size) EXCEPT
                !.chunk_dst = @ + dma_block_size,
                !.chunk_src = @ + dma_block_size,
                !.chunk_remaining = @ - dma_block_size,
                !.pc = "verify"]
    /\ UNCHANGED miOthers

\* A tail copied as it is, not rounded up to pages.
MiAlignedRemaining_Exact(chunk_remaining, page_size) == chunk_remaining

\* size_t aligned_remaining =
\*     (chunk_remaining + page_size - 1) & ~(page_size - 1);
MiAlignedRemaining(chunk_remaining, page_size) ==
    ((chunk_remaining + page_size - 1) \div page_size) * page_size

\* if (chunk_remaining > 0) { aligned_remaining = ...;
\*     chunk_dst = (char *)memcpy(chunk_dst, chunk_src, aligned_remaining)
\*                 + aligned_remaining;
copy_using_direct_io_memory_impact_tail ==
    /\ mi # MiIdle
    /\ mi.pc = "block"
    /\ 0 < mi.chunk_remaining /\ mi.chunk_remaining < dma_block_size
    /\ LET aligned_remaining ==
               MiAlignedRemaining(mi.chunk_remaining, mi.page_size) IN
       mi' = [MiMemcpy(mi, aligned_remaining) EXCEPT
                !.chunk_dst = @ + aligned_remaining,
                !.tail = TRUE,
                !.pc = "verify"]
    /\ UNCHANGED miOthers

\* The words read, all ^ together: pages words (at most 2^e), the first
\* of them word, each 2^p words further in the buffer than the one before
\* (^ is associative and commutative: the first 2^(e-1) words and the
\* others are taken apart).
RECURSIVE MiXorPages(_, _, _, _)
MiXorPages(word, pages, e, p) ==
    IF pages = 0 THEN ZeroChecksum
    ELSE IF e = 0 THEN word
    ELSE LET half == 2 ^ (e - 1) IN
         IF pages <= half THEN MiXorPages(word, pages, e - 1, p)
         ELSE U64Xor(MiXorPages(word, half, e - 1, p),
                     MiXorPages(LcgApply(LcgPowers[p + e], word),
                                pages - half, e - 1, p))

\* for (size_t i = 0; i < len; i += page_size)
\*     checksum ^= *(volatile uint64_t *)(chunk_dst - len + i);
\* The bytes read are the ones the memcpy before has put there: those of
\* src_buffer at the offset it copied from.
\* i = 0, page_size, ... while i < len: how many.
MiPagesRead(len, page_size) == (len + page_size - 1) \div page_size

MiReadBack(f) ==
    U64Xor(f.checksum,
           MiXorPages(BufferWord((f.copy.src_off
                                    + (f.chunk_dst - f.copy.len
                                         - f.copy.dst_off)) \div WordBytes),
                      MiPagesRead(f.copy.len, f.page_size),
                      Log2(dma_block_size \div f.page_size),
                      Log2(f.page_size \div WordBytes)))

copy_using_direct_io_memory_impact_verify ==
    /\ mi # MiIdle
    /\ mi.pc = "verify"
    /\ mi' = [mi EXCEPT !.checksum = MiReadBack(mi),
                        !.verified = TRUE,
                        !.reads = @ + 1,
                        !.words = @ + MiPagesRead(mi.copy.len, mi.page_size),
                        !.pc = IF mi.tail THEN "chunk_end" ELSE "block"]
    /\ UNCHANGED miOthers

\* The end of the body of the outer loop: remaining -= current_chunk;
copy_using_direct_io_memory_impact_next ==
    /\ mi # MiIdle
    /\ \/ mi.pc = "block" /\ mi.chunk_remaining = 0
       \/ mi.pc = "chunk_end"
    /\ mi' = [mi EXCEPT !.remaining = @ - mi.current_chunk, !.pc = "outer"]
    /\ UNCHANGED miOthers

\* free(src_buffer); free(dst_buffer); return (checksum != 0) ? 0 : -1;
linux_MiReturnValue(checksum) == IF checksum # ZeroChecksum THEN 0 ELSE -1

linux_copy_using_direct_io_memory_impact_return ==
    /\ platform = "linux"
    /\ mi # MiIdle
    /\ mi.pc = "outer"
    /\ mi.remaining = 0
    /\ mi' = [mi EXCEPT !.src_buffer = "freed", !.dst_buffer = "freed",
                        !.pc = "done",
                        !.ret = linux_MiReturnValue(mi.checksum)]
    /\ UNCHANGED miOthers

\* VirtualFree x 2; return (checksum != 0) ? 0 : GetLastError();
\* No call of the function has failed when it returns: the last-error code
\* is the one the thread had before, 0 (a new thread's) or what an earlier
\* call has left.
StaleLastErrors == {0, 5}

win_MiReturnValue(checksum, lastError) ==
    IF checksum # ZeroChecksum THEN 0 ELSE lastError

win_copy_using_direct_io_memory_impact_return ==
    /\ platform = "windows"
    /\ mi # MiIdle
    /\ mi.pc = "outer"
    /\ mi.remaining = 0
    /\ \E e \in StaleLastErrors :
         mi' = [mi EXCEPT !.src_buffer = "freed", !.dst_buffer = "freed",
                          !.lastError = e,
                          !.pc = "done",
                          !.ret = win_MiReturnValue(mi.checksum, e)]
    /\ UNCHANGED miOthers

\* One call, with any size.
MiInit ==
    /\ platform \in Platforms
    /\ dio = DioIdle
    /\ mm = MmapIdle
    /\ DispIdle
    /\ rng = RngIdle
    /\ gtf = GtfIdle
    /\ \E size \in MiSizes, page_size \in PageSizes :
         mi = MiFrame(size, page_size)

MiNext ==
    \/ linux_copy_using_direct_io_memory_impact_alloc
    \/ win_copy_using_direct_io_memory_impact_alloc
    \/ copy_using_direct_io_memory_impact_fill
    \/ copy_using_direct_io_memory_impact_chunk
    \/ copy_using_direct_io_memory_impact_block
    \/ copy_using_direct_io_memory_impact_tail
    \/ copy_using_direct_io_memory_impact_verify
    \/ copy_using_direct_io_memory_impact_next
    \/ linux_copy_using_direct_io_memory_impact_return
    \/ win_copy_using_direct_io_memory_impact_return

SpecMi == MiInit /\ [][MiNext]_vars

\* ------------------------------------------------------- claims, direct I/O

\* C1: copy_using_direct_io reports success only if the sum of the bytes
\* written to the destination equals byte_size; a call whose loop stopped
\* with remaining > 0 (a read of zero or less, a write of another count than
\* was read) returns a failure status, never success.
C1_SuccessOnlyIfAllWritten ==
    (dio.pc = "done" /\ dio.buffer # "none" /\ dio.ret = 0)
        => (dio.written = dio.file_size /\ dio.remaining = 0)

\* The loop of the call ran and no read or write of it fell short.
DioAllFull == dio.buffer # "none" /\ dio.full

\* C2: for byte_size a multiple of BLOCK_SIZE, when every read returns the
\* requested length and every write is complete, the loop ends with
\* remaining = 0 and the call returns success; every pass of the loop that
\* goes on to the next strictly decreases remaining, remaining never goes
\* below 0, and the call ends.
C2_AlignedTransferCompletes ==
    /\ [](dio.remaining >= 0)
    /\ []((dio.pc = "done" /\ DioAllFull /\ dio.file_size % BLOCK_SIZE = 0)
            => (dio.remaining = 0 /\ dio.ret = 0
                /\ dio.written = dio.file_size))
    /\ [][(dio.pc = "loop" /\ dio'.pc = "loop")
            => dio'.remaining < dio.remaining]_vars
    /\ <>(dio.pc = "done")

\* A block-aligned size above the transfer ceiling, copied in more than one
\* pass with no read or write falling short.
C2_Witness ==
    /\ dio.pc = "done" /\ DioAllFull /\ dio.ret = 0
    /\ dio.file_size > MAX_READ_SIZE
    /\ dio.file_size % BLOCK_SIZE = 0
    /\ dio.iterations >= 2

\* ------------------------------------------------------------ claims, mmap

\* The source offset whose byte the destination holds at offset p after the
\* copies made so far (the last copy over p decides), or -1 where no copy
\* reached p.
MmapSourceOf(p) ==
    LET over == {i \in DOMAIN mm.windows :
                    /\ mm.windows[i].dst_off <= p
                    /\ p < mm.windows[i].dst_off + mm.windows[i].len}
    IN  IF over = {} THEN -1
        ELSE LET i == CHOOSE j \in over : \A k \in over : k <= j
             IN  mm.windows[i].src_off + (p - mm.windows[i].dst_off)

\* Offsets at which the set of copies over a byte can change: 0 and both
\* ends of every copy.  Between two of them every byte has the same copies
\* over it, so the destination equals the source on [0, file_size) iff it
\* does at each of these offsets below file_size.
MmapEdges ==
    {0} \cup {mm.windows[i].dst_off : i \in DOMAIN mm.windows}
        \cup {mm.windows[i].dst_off + mm.windows[i].len :
                 i \in DOMAIN mm.windows}

MmapDstEqualsSrc ==
    \A p \in MmapEdges : (0 <= p /\ p < mm.file_size) => MmapSourceOf(p) = p

\* C3: after copy_using_mmap returns success for a byte_size above one chunk
\* ceiling, the destination has length byte_size and its bytes
\* [0, byte_size) equal the source's.
C3_MmapRoundTrip ==
    (mm.pc = "done" /\ mm.ret = 0 /\ mm.file_size > MMAP_CHUNK_SIZE)
        => (mm.dst_len = mm.file_size /\ MmapDstEqualsSrc)

\* ------------------------------------------- claims, dispatcher and workers

\* C4: in handle_copy_files the threads of all num_files tasks have been
\* started when the first join is issued, and the handler neither reports
\* nor cleans up (frees the tasks) while one of them has not terminated.
C4_FullBarrier ==
    disp.handler = "copy" =>
      /\ disp.pc = "join" =>
           \A k \in Pass(disp.num_files) : thr["copy"][k].pc # "none"
      /\ (disp.pc \in {"report", "cleanup"} \/ "copy" \in disp.freed) =>
           \A k \in Pass(disp.num_files) : ~Running("copy", k)

\* C5: the dispatcher reads the measurement fields of a task only after the
\* thread that was handed the task has terminated. (That no thread but the
\* task's own assigns the fields is how copy_file_thread is written: it
\* assigns through its own task pointer only.)
C5_ReadAfterTermination ==
    /\ (disp.pc = "collect" /\ disp.i < disp.num_files) =>
         ~Running(disp.phase, disp.i + 1)
    /\ disp.pc = "report" =>
         \A k \in Pass(disp.num_files) : ~Running("copy", k)

\* C6: in the benchmark, when the dispatcher waits for a task of the memory
\* pass (or collects its result) all num_files tasks of that pass have been
\* started; likewise in the disk pass.
C6_PassRunsConcurrently ==
    \A ph \in {"mem", "disk"} :
      (disp.handler = "benchmark" /\ disp.phase = ph
         /\ disp.pc \in {"call", "collect"}) =>
        \A k \in Pass(disp.num_files) : thr[ph][k].pc # "none"

\* C7: in the benchmark no generation task is still running once a task of
\* the memory pass has been started, and no task of the memory pass is still
\* running once a task of the disk pass has been started.
C7_PhaseBarriers ==
    /\ (\E k \in Files : thr["mem"][k].pc # "none") =>
         \A k \in Files : ~Running("gen", k)
    /\ (\E k \in Files : thr["disk"][k].pc # "none") =>
         \A k \in Files : ~Running("gen", k) /\ ~Running("mem", k)

\* A benchmark of two files or more in which every task of the disk pass has
\* been started, after generation and memory passes that ran their threads.
C7_Witness ==
    /\ disp.handler = "benchmark"
    /\ disp.num_files >= 2
    /\ \A k \in Pass(disp.num_files) :
         /\ thr["gen"][k].pc = "done"
         /\ thr["mem"][k].pc = "done"
         /\ thr["disk"][k].pc = "start"
         /\ ~thr["disk"][k].inline

\* C8: no speed is the result of a division by a zero duration: not a
\* task's speed, not the average memory and disk speeds, and not the
\* disk/memory ratio (whose divisor is the average memory speed).
C8_NoDivisionByZero ==
    /\ \A ph \in Phases, k \in Files :
         tasks[ph][k].speed.set => ~QIsZero(tasks[ph][k].duration)
    /\ disp.avg_memory_speed.set => ~QIsZero(disp.total_memory_duration)
    /\ disp.avg_disk_speed.set => ~QIsZero(disp.total_disk_duration)
    /\ disp.speed_ratio.set => ~QIsZero(disp.avg_memory_speed)

\* C9: a task whose size query failed ends with an error status, and its
\* strategy has not been invoked.
C9_StatFailureIsTaskError ==
    \A k \in Files :
      (thr["copy"][k].pc = "done" /\ ~thr["copy"][k].stat_ok) =>
        (thr["copy"][k].strategy_calls = 0 /\ thr["copy"][k].exit # 0)

\* C10: the value a thread hands back is a failure status when its strategy
\* returned failure, and a success status when its strategy succeeded.
C10_StatusHandedBack ==
    \A k \in Files :
      (thr["copy"][k].pc = "done" /\ thr["copy"][k].strategy_calls > 0) =>
        ((thr["copy"][k].result = 0) <=> (thr["copy"][k].exit = 0))

\* C11: when the dispatcher reports, after it has joined the threads, every
\* task that a thread ran to its end has had its duration assigned by that
\* thread.
C11_DurationAssigned ==
    disp.pc = "report" =>
      \A k \in Pass(disp.num_files) :
        thr[disp.phase][k].pc = "done" => tasks[disp.phase][k].duration.set

\* ------------------------------------------------------ claims, generator

\* The first n bytes of a buffer.
Prefix(buffer, n) == [p \in 1..n |-> buffer[p]]

\* The bytes of a buffer of the given size that the fill covers.
FilledBytes(size) == WordBytes * (size \div WordBytes)

BothRunsDone == rng # RngIdle /\ \A r \in Runs2 : rng[r].pc = "done"

RECURSIVE LcgIterate(_)
LcgIterate(n) ==
    IF n = 0 THEN SEED
    ELSE U64Add(U64Mul(LcgIterate(n - 1), MULTIPLIER), INCREMENT)

\* The word j (counted from 0) of a buffer.
WordAt(buffer, j) == [b \in 1..WordBytes |-> buffer[WordBytes * j + b]]

\* C13: fill_buffer_with_random_data writes exactly floor(size / 8)
\* consecutive 64-bit words, the word i (i = 0, 1, ...) being the generator
\* state after i + 1 applications of the step to the initial seed, and every
\* byte it has not written, the trailing size mod 8 bytes among them, is as
\* it was.
C13_WordsWritten ==
    rng # RngIdle =>
      \A r \in Runs2 :
        /\ rng[r].pc = "done" => rng[r].i = rng[r].size \div WordBytes
        /\ \A j \in 0..(rng[r].i - 1) :
             WordAt(rng[r].buffer, j) = LcgIterate(j + 1)
        /\ \A p \in (WordBytes * rng[r].i + 1)..rng[r].size :
             rng[r].buffer[p] = rng[r].before[p]

\* A finished fill of two words and one trailing byte; the first word is
\* 0x18DDB1A43E77C404.
C13_Witness ==
    /\ rng # RngIdle
    /\ rng[1].pc = "done"
    /\ rng[1].size = 2 * WordBytes + 1
    /\ rng[1].before[rng[1].size] = 165
    /\ WordAt(rng[1].buffer, 0) = <<4, 196, 119, 62, 164, 177, 221, 24>>
    /\ WordAt(rng[1].buffer, 1) = <<181, 112, 159, 171, 118, 227, 97, 8>>
    /\ rng[1].buffer[rng[1].size] = 165

\* ------------------------------------------------ claims, generate_test_file

\* C14: when generate_test_file returns success for a requested size, the
\* sum of the bytes written to the file equals that size exactly, also when
\* individual writes were short.
C14_SuccessMeansAllWritten ==
    gtf # GtfIdle =>
      \A c \in Calls :
        (gtf[c].pc = "done" /\ gtf[c].ret = 0) => gtf[c].written = gtf[c].size

\* The bytes of a file past the ones the call wrote: what the file at the
\* path held there before the call.
OldTail(f) == f.length - f.written

\* Two files are byte-identical: they have the same length, neither keeps
\* bytes of an older file, and the same buffer offset lies at every file
\* position. The words of the buffer are pairwise different (the generator's
\* step is a bijection of 2^64 states), so this is the case exactly when the
\* writes cut the files at the same positions.
SameContent(f, g) ==
    /\ f.length = g.length
    /\ OldTail(f) = 0 /\ OldTail(g) = 0
    /\ f.segments = g.segments

\* C17: every call of generate_test_file fills its buffer from a generator
\* of its own that it has initialised itself, whatever the interleaving of
\* the workers, and any two files generated with the same requested size
\* have byte-identical content.
C17_FreshGeneratorSameFiles ==
    gtf # GtfIdle =>
      /\ \A c \in Calls :
           gtf[c].filled > 0 =>
             /\ gtf[c].owner = c
             /\ gtf[c].gen = InitialGenerator(gtf[c].gen)
      /\ (\A c \in Calls : gtf[c].pc = "done" /\ gtf[c].ret = 0)
           => SameContent(gtf[1], gtf[2])

\* The length the next pass of the write loop asks the OS for.
GtfToWrite(remaining) ==
    IF platform = "linux" THEN linux_GtfToWrite(remaining)
    ELSE win_GtfToWrite(remaining)

\* C18: for every requested size, multiples of 512 or not, the write loop
\* of generate_test_file ends with remaining = 0 unless a write returns an
\* error; the length of a chunk is cut down to a multiple of the block size
\* only when the file was opened in direct mode, and is the exact remainder
\* (or a whole buffer) otherwise.
C18_WriteLoopTerminates ==
    /\ [](gtf # GtfIdle =>
            \A c \in Calls :
              (gtf[c].pc = "loop" /\ gtf[c].remaining > 0 /\ ~gtf[c].direct)
                => GtfToWrite(gtf[c].remaining)
                     = Min(gtf[c].remaining, GtfBufSize))
    /\ \A c \in Calls :
         (gtf # GtfIdle /\ gtf[c].pc = "loop")
           ~> (gtf # GtfIdle /\ gtf[c].pc = "done"
                 /\ (gtf[c].failed \/ gtf[c].remaining = 0))

\* ------------------------------------------------------ claims, aggregates

\* The sum of f[k], k = from .. n.
RECURSIVE SumFrom(_, _, _)
SumFrom(f, from, n) ==
    IF from > n THEN QInt(0) ELSE QAdd(f[from], SumFrom(f, from + 1, n))

\* m is the maximum of 0 and f[1], ..., f[n].
IsMaxOf(m, f, n) ==
    /\ m = QInt(0) \/ \E k \in 1..n : m = f[k]
    /\ QGe(m, QInt(0))
    /\ \A k \in 1..n : QGe(m, f[k])

\* C15: the totals that are reported are aggregates of the per-task values:
\* the total size is the sum of the tasks' size_mib, the total duration is
\* the maximum of the tasks' durations and not their sum (in the benchmark
\* one maximum for the memory pass and one for the disk pass), and an
\* average speed is the total size divided by the total duration. (A field
\* no one assigned counts with the value that reading it yields.)
C15_Aggregates ==
    /\ (disp.handler = "copy" /\ disp.pc = "cleanup") =>
         \E gs \in [Files -> GarbageDoubles], gd \in [Files -> GarbageDoubles] :
           LET n == disp.num_files
               size_mib == [k \in Files |->
                              ReadField(tasks["copy"][k].size_mib, gs[k])]
               duration == [k \in Files |->
                              ReadField(tasks["copy"][k].duration, gd[k])]
           IN  /\ disp.total_size = SumFrom(size_mib, 1, n)
               /\ IsMaxOf(disp.total_duration, duration, n)
               /\ disp.avg_speed
                    = QDiv(disp.total_size, disp.total_duration)
    /\ (disp.handler = "benchmark" /\ disp.pc = "cleanup") =>
         LET n == disp.num_files IN
         /\ disp.total_size
              = SumFrom([k \in Files |-> results[k].size_mib], 1, n)
         /\ IsMaxOf(disp.total_memory_duration,
                    [k \in Files |-> results[k].memory_duration], n)
         /\ IsMaxOf(disp.total_disk_duration,
                    [k \in Files |-> results[k].disk_duration], n)
         /\ disp.avg_memory_speed
              = QDiv(disp.total_size, disp.total_memory_duration)
         /\ disp.avg_disk_speed
              = QDiv(disp.total_size, disp.total_disk_duration)

\* print_copy_results has reported on two files of 1 MiB that took one tick
\* each: 2 MiB in all, in one tick, at 2 MiB a tick.
C15_Witness ==
    /\ disp.handler = "copy" /\ disp.pc = "cleanup"
    /\ disp.num_files = 2
    /\ \A k \in 1..2 :
         /\ tasks["copy"][k].size_mib = QInt(1)
         /\ tasks["copy"][k].duration = QInt(1)
    /\ disp.total_size = QInt(2)
    /\ disp.total_duration = QInt(1)
    /\ disp.avg_speed = QInt(2)

\* ------------------------------------------------------- claims, dispatcher

\* C16: the dispatcher neither retries a task nor aborts one: whichever
\* tasks fail, and however the threads interleave, when handle_copy_files
\* returns every task that was handed to a thread has run to its end, with
\* its strategy invoked exactly once (not at all when its size could not be
\* found, C9), and no strategy is ever invoked a second time.
C16_EveryTaskRunsOnce ==
    disp.handler = "copy" =>
      \A k \in Pass(disp.num_files) :
        /\ thr["copy"][k].strategy_calls <= 1
        /\ (disp.pc = "done" /\ thr["copy"][k].pc # "none") =>
             /\ thr["copy"][k].pc = "done"
             /\ thr["copy"][k].strategy_calls = 1 \/ ~thr["copy"][k].stat_ok

\* --------------------------------------------- claims, transfer lengths

\* C19: in copy_using_direct_io with a file size that is a multiple of
\* BLOCK_SIZE, every length handed to the OS, by the read and by the write
\* of every iteration, is a multiple of BLOCK_SIZE and at most
\* MAX_READ_SIZE, also in and after an iteration whose read returned fewer
\* bytes than it was asked for (the write is handed the count read).
C19_BlockMultiples ==
    (dio.pc # "idle" /\ dio.file_size % BLOCK_SIZE = 0
       /\ dio.iterations > 0) =>
      /\ dio.to_read % BLOCK_SIZE = 0
      /\ dio.to_read <= MAX_READ_SIZE
      /\ dio.bytes_read > 0 =>
           /\ dio.bytes_read % BLOCK_SIZE = 0
           /\ dio.bytes_read <= MAX_READ_SIZE

\* The sum of the lengths of the first n chunks.
RECURSIVE ChunksLen(_, _)
ChunksLen(windows, n) ==
    IF n = 0 THEN 0 ELSE ChunksLen(windows, n - 1) + windows[n].len

\* C20: in copy_using_mmap every chunk that is mapped has a size between 1
\* and MMAP_CHUNK_SIZE; a chunk starts where the chunks before it end (its
\* offset is the sum of their sizes) and lies within the file;
\* offset + remaining = byte_size at every loop head; and when the loop ends
\* normally the chunk sizes sum to byte_size, every chunk but the last being
\* a whole MMAP_CHUNK_SIZE and the last one the remainder.
C20_ChunksTileTheFile ==
    mm.pc # "idle" =>
      /\ \A i \in 1..Len(mm.windows) :
           /\ mm.windows[i].len \in 1..MMAP_CHUNK_SIZE
           /\ mm.windows[i].src_off = ChunksLen(mm.windows, i - 1)
           /\ mm.windows[i].dst_off = mm.windows[i].src_off
           /\ mm.windows[i].src_off + mm.windows[i].len <= mm.file_size
      /\ mm.pc = "loop" =>
           (mm.remaining >= 0 /\ mm.offset + mm.remaining = mm.file_size)
      /\ (mm.pc = "done" /\ mm.ret = 0 /\ ~mm.failed_map) =>
           /\ mm.remaining = 0
           /\ ChunksLen(mm.windows, Len(mm.windows)) = mm.file_size
           /\ \A i \in 1..Len(mm.windows) :
                mm.windows[i].len
                  = IF i < Len(mm.windows) THEN MMAP_CHUNK_SIZE
                    ELSE mm.file_size - (i - 1) * MMAP_CHUNK_SIZE

\* A copy of one whole chunk and one more byte has ended normally: two
\* chunks, the second of 1 byte at offset MMAP_CHUNK_SIZE.
C20_Witness ==
    /\ mm.pc = "done" /\ mm.ret = 0
    /\ mm.file_size = MMAP_CHUNK_SIZE + 1
    /\ Len(mm.windows) = 2
    /\ mm.windows[2] = MmapCopy(MMAP_CHUNK_SIZE, 1)

\* ------------------------------------------------- claims, failure paths

\* C21: when mapping the source window or the destination window has failed
\* in an iteration of copy_using_mmap, the loop does not go on to another
\* chunk and the function returns a failure status, never success, also
\* when chunks were copied before.
C21_MapFailureIsFailure ==
    (mm.pc # "idle" /\ mm.failed_map) =>
      /\ mm.pc = "loop" => mm.ret # 0
      /\ mm.pc = "done" => mm.ret # 0


\* ------------------------------------------------ claims, memory bandwidth

\* The copy loop of copy_using_direct_io_memory_impact has ended and the
\* function has returned.
MiLoopEnded ==
    /\ mi # MiIdle
    /\ mi.pc = "done"
    /\ mi.src_buffer = "freed"
    /\ mi.dst_buffer = "freed"

\* C22: copy_using_direct_io_memory_impact returns success exactly when the
\* checksum is not 0 at the end of the copy loop; with byte_size 0 nothing
\* is copied, the checksum stays 0 and the call is reported as failed.
C22_SuccessIffChecksum ==
    MiLoopEnded =>
      /\ (mi.ret = 0) <=> (mi.checksum # ZeroChecksum)
      /\ mi.file_size = 0 =>
            mi.copies = 0 /\ mi.checksum = ZeroChecksum /\ mi.ret # 0

\* Every memcpy so far is at most one sub-block long, and its read-back is
\* done before the next memcpy: a memcpy is only made at the head of the
\* inner loop, and there the one before has been read back.
MiBlockwise ==
    mi # MiIdle =>
      /\ mi.copy.len <= dma_block_size
      /\ mi.verified <=> mi.pc # "verify"
      /\ mi.reads = mi.copies - (IF mi.verified THEN 0 ELSE 1)

\* C23, as stated: the bytes copied are byte_size in all, in sub-blocks of
\* at most 2 MiB, each read back (a word per page) before the next is
\* copied.
C23_Original ==
    /\ MiBlockwise
    /\ MiLoopEnded =>
          /\ mi.copied = mi.file_size
          /\ mi.words * mi.page_size = mi.copied

\* C23, as the code has it: the bytes copied are byte_size rounded up to
\* whole pages (byte_size itself when it is a multiple of the page size), in
\* sub-blocks of at most 2 MiB, each read back, a word per page, before the
\* next is copied.
C23_CopiedRoundedUp ==
    /\ MiBlockwise
    /\ MiLoopEnded =>
          /\ mi.copied =
                ((mi.file_size + mi.page_size - 1) \div mi.page_size)
                  * mi.page_size
          /\ mi.file_size % mi.page_size = 0 => mi.copied = mi.file_size
          /\ mi.words * mi.page_size = mi.copied

\* A call that copied whole sub-blocks and a tail that is not whole pages
\* has returned.
C23_Witness ==
    /\ MiLoopEnded
    /\ mi.file_size % mi.page_size # 0
    /\ mi.copies >= 2
    /\ mi.reads = mi.copies
    /\ mi.copied > mi.file_size

\* C28: every memcpy of copy_using_direct_io_memory_impact reads inside
\* src_buffer and writes inside dst_buffer, and every word of a read-back
\* is inside dst_buffer, both MAX_READ_SIZE bytes long, whatever byte_size
\* is: offset + length never exceeds MAX_READ_SIZE.
C28_InsideTheBuffers ==
    mi # MiIdle =>
      /\ 0 <= mi.copy.src_off
      /\ 0 <= mi.copy.dst_off
      /\ mi.copy.src_off + mi.copy.len <= MAX_READ_SIZE
      /\ mi.copy.dst_off + mi.copy.len <= MAX_READ_SIZE
      /\ mi.copy.src_off + mi.copy.len <= mi.filled
      /\ mi.pc = "verify" =>
            \A k \in {0, MiPagesRead(mi.copy.len, mi.page_size) - 1} :
              LET at == mi.chunk_dst - mi.copy.len + k * mi.page_size IN
              /\ 0 <= at
              /\ at + WordBytes <= MAX_READ_SIZE

\* The second chunk of a byte_size above MAX_READ_SIZE has copied a tail
\* that was rounded up to whole pages, and it has been read back.
C28_Witness ==
    /\ mi # MiIdle
    /\ mi.file_size > MAX_READ_SIZE
    /\ mi.remaining < MAX_READ_SIZE
    /\ mi.pc = "chunk_end"
    /\ mi.copy.len > mi.chunk_remaining
    /\ mi.copy.dst_off = dma_block_size

\* --------------------------------------------- claims, generation, flush

\* C24: a call of generate_test_file that returns success has flushed the
\* file (fsync, FlushFileBuffers) after its last write and before it closed
\* the file; a call whose flush failed returns failure.
C24_FlushedBeforeClose ==
    gtf # GtfIdle =>
      \A c \in Calls :
        /\ (gtf[c].pc = "done" /\ gtf[c].ret = 0) =>
              /\ gtf[c].flushed = "ok"
              /\ gtf[c].flushed_at = gtf[c].written
              /\ gtf[c].fd = "closed"
        /\ gtf[c].pc = "close" => gtf[c].fd = "open"
        /\ (gtf[c].pc = "done" /\ gtf[c].flushed = "failed") =>
              gtf[c].ret # 0

\* ------------------------------------------- claims, direct I/O, tails

\* C25: on the linux build, copy_using_direct_io with a byte_size that is
\* not a multiple of BLOCK_SIZE, when no read or write fails or falls short,
\* copies byte_size - byte_size mod BLOCK_SIZE bytes, then asks for a read of
\* 0 bytes, leaves the loop with remaining = byte_size mod BLOCK_SIZE and
\* returns -1; the loop ends.
C25_TailLeftFails ==
    /\ []((/\ platform = "linux"
           /\ dio.pc = "done"
           /\ DioAllFull
           /\ dio.file_size % BLOCK_SIZE # 0)
            => /\ dio.written = dio.file_size - (dio.file_size % BLOCK_SIZE)
               /\ dio.to_read = 0
               /\ dio.bytes_read = 0
               /\ dio.remaining = dio.file_size % BLOCK_SIZE
               /\ dio.ret = -1)
    /\ (platform = "linux" /\ dio.pc = "loop") ~> (dio.pc = "done")

\* A size that is whole blocks and a tail, on the linux build: the blocks
\* were copied in full passes, the call has returned.
C25_Witness ==
    /\ platform = "linux"
    /\ dio.pc = "done"
    /\ DioAllFull
    /\ dio.file_size % BLOCK_SIZE # 0
    /\ dio.written > 0
    /\ dio.iterations >= 2
    /\ dio.remaining > 0

\* -------------------------------------- claims, dispatcher, task lifetime

\* C26: while a thread that was handed a task may still run, the dispatcher
\* has not freed the tasks of its pass nor the path strings of its task,
\* and has not returned; also when the thread of a later task could not be
\* created.
C26_TasksOutliveThreads ==
    \A ph \in Phases : \A k \in Pass(disp.num_files) :
      Running(ph, k) =>
        /\ ph \notin disp.freed
        /\ tasks[ph][k].dst_path # "freed"
        /\ disp.pc # "done"

\* ------------------------------------------------- claims, resources

\* C27: when copy_using_mmap has returned, by whichever path, every
\* descriptor or handle it opened is closed and every window or mapping
\* object it mapped is unmapped: nothing is left open, also when one of the
\* two opens or one of the two mappings has failed.
C27_NothingLeftOpen ==
    mm.pc = "done" =>
      /\ mm.src_fd # "open"
      /\ mm.dst_fd # "open"
      /\ mm.leaked = 0

====
